---- MODULE Spec2Model ----
(***************************************************************************)
(* Model of the query_rustdocs tool (src/src/tools/query_rustdocs.rs):     *)
(* version resolution against crates.io, the docs.rs crawl, GitHub         *)
(* enrichment and the concurrent per-crate orchestration.                  *)
(*                                                                         *)
(* Strings of the program are sequences of one-character strings, so that  *)
(* find / split / trim / contains are computed as the code computes them.  *)
(***************************************************************************)
EXTENDS Integers, Sequences, FiniteSets, TLC

VARIABLES
    overflow_checks,  \* whether the build checks integer overflow (debug profile)
    registry,         \* crates.io: per crate name, the versions body and the root body
    args,             \* the QueryRustDocsArgs of the call
    mainpc,           \* where query_rustdocs is: "called", "joining", "returned"
    task,             \* the spawned enrich_crate_full tasks, in spawn order
    joined,           \* how many handles the await loop has awaited
    results,          \* the results vector of query_rustdocs
    warnings,         \* the warnings vector of query_rustdocs
    response,         \* what query_rustdocs returned
    finished,         \* the tasks that have ended, in the order in which they ended
    ex,               \* a document or snippet handed to the extraction helpers, and what they returned
    va, vb,           \* a pair of version strings handed to version_is_greater
    vgt               \* its results on the pair

vars == <<overflow_checks, registry, args, mainpc, task, joined, results, warnings,
          response, finished, ex, va, vb, vgt>>

\* ------------------------------------------------------------------ bounds

\* longest version string drawn for the comparison
MaxVerLen == 3

\* ------------------------------------------------------------- characters

Digits == <<"0", "1", "2", "3", "4", "5", "6", "7", "8", "9">>

\* char::is_ascii_digit
is_ascii_digit(ch) == \E k \in 1..10 : Digits[k] = ch

\* ch as i64 - '0' as i64 (only applied to ASCII digits)
digit_value(ch) == (CHOOSE k \in 1..10 : Digits[k] = ch) - 1

\* the characters with the Unicode property White_Space that a string of this
\* module can hold: U+0009 to U+000D, U+0020, U+0085, U+00A0 and U+1680
WhiteSpace ==
    {"\t", "\n", "", "\f", "\r", " ", "", " ", " "}

\* char::is_whitespace
is_whitespace(ch) == ch \in WhiteSpace

\* the characters beyond ASCII that the strings of this module are made of,
\* by the number of bytes of their UTF-8 encoding: U+0085, U+00A0 to U+00FF
\* and two Greek letters; U+1680, two symbols, a kana and an ideograph
TwoByteChars ==
    {"", " ", "¡", "¢", "£", "¤", "¥", "¦", "§", "¨", "©", "ª", "«", "¬", "­", "®", "¯", "°",
     "±", "²", "³", "´", "µ", "¶", "·", "¸", "¹", "º", "»", "¼", "½", "¾", "¿", "À", "Á", "Â",
     "Ã", "Ä", "Å", "Æ", "Ç", "È", "É", "Ê", "Ë", "Ì", "Í", "Î", "Ï", "Ð", "Ñ", "Ò", "Ó", "Ô",
     "Õ", "Ö", "×", "Ø", "Ù", "Ú", "Û", "Ü", "Ý", "Þ", "ß", "à", "á", "â", "ã", "ä", "å", "æ",
     "ç", "è", "é", "ê", "ë", "ì", "í", "î", "ï", "ð", "ñ", "ò", "ó", "ô", "õ", "ö", "÷", "ø",
     "ù", "ú", "û", "ü", "ý", "þ", "ÿ", "λ", "Ω"}
ThreeByteChars ==
    {" ", "→", "€", "ア", "語"}

\* char::len_utf8
len_utf8(ch) == IF ch \in ThreeByteChars THEN 3 ELSE IF ch \in TwoByteChars THEN 2 ELSE 1

\* str::len: the length of the string in bytes
RECURSIVE str_len(_)
str_len(s) == IF s = <<>> THEN 0 ELSE len_utf8(Head(s)) + str_len(Tail(s))

\* str::trim_start
RECURSIVE trim_start(_)
trim_start(s) ==
    IF s # <<>> /\ is_whitespace(Head(s)) THEN trim_start(Tail(s)) ELSE s

\* str::trim_end
RECURSIVE trim_end(_)
trim_end(s) ==
    IF s # <<>> /\ is_whitespace(s[Len(s)])
    THEN trim_end(SubSeq(s, 1, Len(s) - 1))
    ELSE s

\* str::trim
trim(s) == trim_end(trim_start(s))

\* str::find(char): 1-based index of the first occurrence, 0 for None
find_char(s, ch) ==
    IF \E k \in 1..Len(s) : s[k] = ch
    THEN CHOOSE k \in 1..Len(s) : s[k] = ch /\ \A j \in 1..(k - 1) : s[j] # ch
    ELSE 0

\* str::split(char): the sequence of segments; "" splits into one empty segment
RECURSIVE split_char(_, _)
split_char(s, ch) ==
    LET idx == find_char(s, ch) IN
    IF idx = 0 THEN <<s>>
    ELSE <<SubSeq(s, 1, idx - 1)>> \o split_char(SubSeq(s, idx + 1, Len(s)), ch)

\* ------------------------------------------------------- strings, options

\* Option<T>: None and Some(x)
None == <<>>
Some(x) == <<x>>
is_some(o) == o # <<>>
unwrap(o) == o[1]
\* Option::or
option_or(o, other) == IF is_some(o) THEN o ELSE other

\* str::starts_with / ends_with / contains / find on a pattern string
starts_with(s, pat) == Len(s) >= Len(pat) /\ SubSeq(s, 1, Len(pat)) = pat
ends_with(s, pat) ==
    Len(s) >= Len(pat) /\ SubSeq(s, Len(s) - Len(pat) + 1, Len(s)) = pat
occurs_at(s, pat, k) == SubSeq(s, k, k + Len(pat) - 1) = pat
\* 1-based index of the first occurrence, 0 for None
find_str(s, pat) ==
    LET at == {k \in 1..(Len(s) - Len(pat) + 1) : occurs_at(s, pat, k)}
    IN  IF at = {} THEN 0 ELSE CHOOSE k \in at : \A j \in at : k <= j
contains(s, pat) == find_str(s, pat) # 0

\* str::trim_start_matches(char) and trim_end_matches(pattern)
RECURSIVE trim_start_matches(_, _)
trim_start_matches(s, ch) ==
    IF s # <<>> /\ Head(s) = ch THEN trim_start_matches(Tail(s), ch) ELSE s
RECURSIVE trim_end_matches(_, _)
trim_end_matches(s, pat) ==
    IF pat # <<>> /\ ends_with(s, pat)
    THEN trim_end_matches(SubSeq(s, 1, Len(s) - Len(pat)), pat)
    ELSE s

\* membership in a Vec / VecDeque
seq_contains(q, x) == \E k \in 1..Len(q) : q[k] = x

\* ------------------------------------------------------------ JSON values

(* A JSON member is <<"absent", "">> (no such key), <<"other", "">> (a     *)
(* value that is not a string) or <<"str", s>>.                            *)
JAbsent == <<"absent", <<>>>>
JOther == <<"other", <<>>>>
JStr(s) == <<"str", s>>
\* Value::get(key) found a member
has_key(j) == j[1] # "absent"
\* Value::as_str
as_str(j) == IF j[1] = "str" THEN Some(j[2]) ELSE None

\* the HTTP exchange of one request, as the code distinguishes its outcomes:
\*   "timeout"  the tokio timeout elapsed          (Err(_))
\*   "neterr"   reqwest returned an error          (Ok(Err(e)))
\*   "status"   a response with a non-success status
\*   "badbody"  a success status whose body could not be read / parsed
\*   "ok"       a success status with body `body`
\* `status` is resp.status().as_u16(), and 0 where no response arrived
Failure(kind) ==
    [kind |-> kind, body |-> <<>>,
     status |-> IF kind = "status" THEN 500 ELSE IF kind = "badbody" THEN 200 ELSE 0]
Success(body) == [kind |-> "ok", body |-> body, status |-> 200]
\* a response with the non-success status `code`
StatusFailure(code) == [kind |-> "status", body |-> <<>>, status |-> code]
\* the non-success statuses the answers of the model carry
StatusCodes == {404, 500, 503}
FailureKinds == {"timeout", "neterr", "status", "badbody"}
Failures == {Failure(k) : k \in FailureKinds}
\* `if let Ok(Ok(resp)) = ... { if resp.status().is_success() { if let Ok(..) = body`
is_ok(r) == r.kind = "ok"

\* ------------------------------------------------------------ i64 values

(* An i64 is held as its two's-complement bit pattern, an unsigned number  *)
(* below 2^64 written as three limbs <<h, m, l>> = h*10^16 + m*10^8 + l,   *)
(* so that `num * 10 + digit` keeps the width of the code's i64.           *)
LimbBase == 10000 * 10000

Zero64 == <<0, 0, 0>>

\* 2^63 = 9223372036854775808 and 2^64 = 18446744073709551616
TwoPow63 == <<922, 33720368, 54775808>>
TwoPow64 == <<1844, 67440737, 9551616>>

u_ge(x, y) ==
    \/ x[1] > y[1]
    \/ x[1] = y[1] /\ x[2] > y[2]
    \/ x[1] = y[1] /\ x[2] = y[2] /\ x[3] >= y[3]

\* x - y for x >= y
u_sub(x, y) ==
    LET b0 == IF x[3] < y[3] THEN 1 ELSE 0
        l  == x[3] + b0 * LimbBase - y[3]
        b1 == IF x[2] - b0 < y[2] THEN 1 ELSE 0
        m  == x[2] - b0 + b1 * LimbBase - y[2]
    IN  <<x[1] - b1 - y[1], m, l>>

\* x * 10 + d, not reduced
u_mul10_add(x, d) ==
    LET t0 == x[3] * 10 + d
        t1 == x[2] * 10 + (t0 \div LimbBase)
    IN  <<x[1] * 10 + (t1 \div LimbBase), t1 % LimbBase, t0 % LimbBase>>

\* x mod 2^64
RECURSIVE u_wrap(_)
u_wrap(x) == IF u_ge(x, TwoPow64) THEN u_wrap(u_sub(x, TwoPow64)) ELSE x

\* the sign bit of the i64
i64_is_negative(x) == u_ge(x, TwoPow63)

\* na > nb on i64
i64_gt(x, y) ==
    IF i64_is_negative(x) # i64_is_negative(y)
    THEN i64_is_negative(y)
    ELSE x # y /\ u_ge(x, y)

\* ------------------------------------------------------ version selection

(* The inner loop of parse_version_numeric_and_prerelease over one segment: *)
(* the value of the initial numeric prefix and whether any digit was read.  *)
(* `num * 10 + digit` overflows an i64 from 19 digits on: the build with    *)
(* overflow checks panics there (overflow), the build without them wraps.   *)
RECURSIVE numeric_prefix(_, _, _, _)
numeric_prefix(seg, num, any, checks) ==
    IF seg # <<>> /\ is_ascii_digit(Head(seg))
    THEN LET wide == u_mul10_add(num, digit_value(Head(seg))) IN
         IF u_ge(wide, TwoPow63) /\ checks
         THEN [num |-> num, any |-> TRUE, overflow |-> TRUE]
         ELSE numeric_prefix(Tail(seg), u_wrap(wide), TRUE, checks)
    ELSE [num |-> num, any |-> any, overflow |-> FALSE]

\* the loop of parse_version_numeric_and_prerelease over the segments
RECURSIVE parse_segments(_, _, _, _)
parse_segments(segs, parts, prerelease, checks) ==
    IF segs = <<>>
    THEN [parts |-> parts, prerelease |-> prerelease, panicked |-> FALSE]
    ELSE LET p == numeric_prefix(Head(segs), Zero64, FALSE, checks) IN
         IF p.overflow
         THEN [parts |-> parts, prerelease |-> prerelease, panicked |-> TRUE]
         ELSE IF p.any
         THEN parse_segments(Tail(segs), Append(parts, p.num), prerelease, checks)
         ELSE parse_segments(Tail(segs), Append(parts, Zero64), TRUE, checks)

parse_version_numeric_and_prerelease(v0, checks) ==
    LET v     == trim(v0)
        idx   == find_char(v, "-")
        main  == IF idx = 0 THEN v ELSE SubSeq(v, 1, idx - 1)
        pre   == idx # 0 /\ Len(v) - idx > 0
    IN  parse_segments(split_char(main, "."), <<>>, pre, checks)

\* Vec::get(i).unwrap_or(&0), with the 0-based i of the code as 1-based k
get_or_zero(p, k) == IF k <= Len(p) THEN p[k] ELSE Zero64

Max(x, y) == IF x >= y THEN x ELSE y

\* the for loop of version_is_greater from position k on: "gt", "lt" or "eq"
RECURSIVE compare_segments(_, _, _, _)
compare_segments(pa, pb, k, l) ==
    IF k > l THEN "eq"
    ELSE LET na == get_or_zero(pa, k)
             nb == get_or_zero(pb, k)
         IN  IF i64_gt(na, nb) THEN "gt"
             ELSE IF i64_gt(nb, na) THEN "lt"
             ELSE compare_segments(pa, pb, k + 1, l)

\* version_is_greater without the prerelease tie-break of lines 121-124
version_is_greater_no_tiebreak(a, b, checks) ==
    LET A == parse_version_numeric_and_prerelease(a, checks)
        B == parse_version_numeric_and_prerelease(b, checks)
        c == compare_segments(A.parts, B.parts, 1, Max(Len(A.parts), Len(B.parts)))
    IN  IF A.panicked \/ B.panicked THEN "panic"
        ELSE IF c = "gt" THEN "true"
        ELSE "false"

(* version_is_greater(a, b): "true", "false", or "panic" when parsing a or  *)
(* b overflows in a build with overflow checks.                             *)
version_is_greater(a, b, checks) ==
    LET A == parse_version_numeric_and_prerelease(a, checks)
        B == parse_version_numeric_and_prerelease(b, checks)
        c == compare_segments(A.parts, B.parts, 1, Max(Len(A.parts), Len(B.parts)))
    IN  IF A.panicked \/ B.panicked THEN "panic"
        ELSE IF c = "gt" THEN "true"
        ELSE IF c = "lt" THEN "false"
        ELSE IF A.prerelease # B.prerelease
             THEN (IF (~A.prerelease) /\ B.prerelease THEN "true" ELSE "false")
        ELSE "false"

\* ------------------------------------------------------------- error text

(* A formatted message: the format string and the values put in its {}.   *)
Msg(fmt, values) == [fmt |-> fmt, args |-> values]
\* format!(prefix + "{}", e)
Prefixed(prefix, e) == [fmt |-> prefix \o e.fmt, args |-> e.args]
\* the Display text of a reqwest / serde error, and of a non-success status
ErrText == <<"e">>
\* Display of http::StatusCode: the code and its canonical reason
StatusText(code) ==
    CASE code = 404 -> <<"4", "0", "4", " ", "N", "o", "t", " ", "F", "o", "u", "n", "d">>
      [] code = 500 -> <<"5", "0", "0", " ", "I", "n", "t", "e", "r", "n", "a", "l", " ", "S", "e", "r", "v", "e", "r", " ", "E", "r", "r", "o", "r">>
      [] code = 503 -> <<"5", "0", "3", " ", "S", "e", "r", "v", "i", "c", "e", " ", "U", "n", "a", "v", "a", "i", "l", "a", "b", "l", "e">>

\* ------------------------------------------------- crates.io best version

(* One element of the "versions" array: the members the code reads.       *)
(*   num, links.repository, description : JSON members                    *)
(*   yanked : "true", "false" or "absent" (as_bool().unwrap_or(false))     *)
VersionEntry(num, yanked, repository, description) ==
    [num |-> num, yanked |-> yanked, repository |-> repository,
     description |-> description]

\* the loop state of lines 151-153
ScanStart ==
    [best |-> None, description |-> None, repository_or_docs |-> None,
     panicked |-> FALSE]

\* the body of the `for ver in arr` loop, lines 155-174
scan_entry(st, ver, checks) ==
    LET num == as_str(ver.num) IN
    IF ~is_some(num) THEN st
    ELSE IF ver.yanked = "true" THEN st
    ELSE LET gt == IF is_some(st.best)
                   THEN version_is_greater(unwrap(num), unwrap(st.best), checks)
                   ELSE "true"
             repo == as_str(ver.repository)
             desc == as_str(ver.description)
         IN  IF gt = "panic" THEN [st EXCEPT !.panicked = TRUE]
             ELSE [best |-> IF gt = "true" THEN num ELSE st.best,
                   repository_or_docs |->
                       IF ~is_some(st.repository_or_docs) /\ is_some(repo)
                       THEN repo ELSE st.repository_or_docs,
                   description |->
                       IF ~is_some(st.description) /\ is_some(desc)
                       THEN desc ELSE st.description,
                   panicked |-> FALSE]

\* the `for ver in arr` loop, lines 154-175, from element k on
RECURSIVE scan_versions(_, _, _, _)
scan_versions(arr, k, st, checks) ==
    IF k > Len(arr) \/ st.panicked THEN st
    ELSE scan_versions(arr, k + 1, scan_entry(st, arr[k], checks), checks)

(* The body of the versions endpoint: <<"array", arr>> when it has a      *)
(* "versions" array, <<"other", <<>>>> when it has none.                   *)
VersionsBody(arr) == <<"array", arr>>
NoVersionsArray == <<"other", <<>>>>

(* The crate root body: `crate` is None when the body has no "crate"      *)
(* member, else Some of the members the code reads.                        *)
CrateObject(max_version, newest_version, description, repository, documentation) ==
    [max_version |-> max_version, newest_version |-> newest_version,
     description |-> description, repository |-> repository,
     documentation |-> documentation]
RootBody(crate) == [crate |-> crate]

\* v.get("crate").and_then(|c| c.get(key)).and_then(|s| s.as_str())
crate_str(body, key) ==
    IF is_some(body.crate) THEN as_str(unwrap(body.crate)[key]) ELSE None

\* what fetch_crates_io_best_version returns or does next
ResolveErr(e) ==
    [next |-> "err", error |-> e, version |-> <<>>,
     description |-> None, repository_or_docs |-> None]
ResolveOk(version, description, repository_or_docs) ==
    [next |-> "ok", error |-> Msg("", <<>>), version |-> version,
     description |-> description, repository_or_docs |-> repository_or_docs]
ResolveStep(next, st) ==
    [next |-> next, error |-> Msg("", <<>>),
     version |-> IF is_some(st.best) THEN unwrap(st.best) ELSE <<>>,
     description |-> st.description, repository_or_docs |-> st.repository_or_docs]

(* Lines 137-203: the answer to the versions request.  "err" returns the  *)
(* error, "backfill" sends the supplementary crate root request with a    *)
(* best version chosen, "fallback" goes on to line 205, "panic" unwinds.  *)
versions_response(crate_name, r, checks) ==
    IF r.kind = "timeout"
    THEN ResolveErr(Msg("timeout fetching crates.io versions for '{}'", <<crate_name>>))
    ELSE IF r.kind = "neterr"
    THEN ResolveErr(Msg("network error fetching crates.io versions for '{}': {}",
                        <<crate_name, ErrText>>))
    ELSE IF r.kind = "status" THEN ResolveStep("fallback", ScanStart)
    ELSE IF r.kind = "badbody"
    THEN ResolveErr(Msg("invalid JSON from crates.io versions for '{}': {}",
                        <<crate_name, ErrText>>))
    ELSE IF r.body[1] # "array" THEN ResolveStep("fallback", ScanStart)
    ELSE LET st == scan_versions(r.body[2], 1, ScanStart, checks) IN
         IF st.panicked THEN ResolveStep("panic", ScanStart)
         ELSE IF is_some(st.best) THEN ResolveStep("backfill", st)
         ELSE ResolveStep("fallback", ScanStart)

\* backfill_response with the values of the crate root taken whenever it has them
backfill_response_overwrites(best, description, repository_or_docs, r) ==
    IF is_ok(r)
    THEN LET repo == IF is_some(crate_str(r.body, "repository"))
                     THEN crate_str(r.body, "repository") ELSE repository_or_docs
             desc == IF is_some(crate_str(r.body, "description"))
                     THEN crate_str(r.body, "description") ELSE description
             documentation_field == crate_str(r.body, "documentation")
         IN  ResolveOk(best, desc, option_or(repo, documentation_field))
    ELSE ResolveOk(best, description, repository_or_docs)

\* lines 179-200: the answer to the supplementary crate root request
backfill_response(best, description, repository_or_docs, r) ==
    IF is_ok(r)
    THEN LET repo == IF ~is_some(repository_or_docs)
                     THEN crate_str(r.body, "repository") ELSE repository_or_docs
             desc == IF ~is_some(description)
                     THEN crate_str(r.body, "description") ELSE description
             documentation_field == crate_str(r.body, "documentation")
         IN  ResolveOk(best, desc, option_or(repo, documentation_field))
    ELSE ResolveOk(best, description, repository_or_docs)

\* lines 206-244: the answer to the fallback crate root request
fallback_response(crate_name, r) ==
    IF r.kind = "timeout"
    THEN ResolveErr(Msg("timeout fetching crates.io for '{}'", <<crate_name>>))
    ELSE IF r.kind = "neterr"
    THEN ResolveErr(Msg("network error fetching crates.io for '{}': {}",
                        <<crate_name, ErrText>>))
    ELSE IF r.kind = "status"
    THEN ResolveErr(Msg("crates.io returned {} for '{}'", <<StatusText(r.status), crate_name>>))
    ELSE IF r.kind = "badbody"
    THEN ResolveErr(Msg("invalid JSON from crates.io for '{}': {}",
                        <<crate_name, ErrText>>))
    ELSE IF ~is_some(r.body.crate)
    THEN ResolveErr(Msg("unexpected crates.io shape for '{}'", <<crate_name>>))
    ELSE LET crate_obj == unwrap(r.body.crate)
             latest == as_str(IF has_key(crate_obj.max_version)
                              THEN crate_obj.max_version
                              ELSE crate_obj.newest_version)
         IN  IF ~is_some(latest)
             THEN ResolveErr(Msg("could not determine latest version for '{}'",
                                 <<crate_name>>))
             ELSE ResolveOk(unwrap(latest),
                            as_str(crate_obj.description),
                            option_or(as_str(crate_obj.repository),
                                      as_str(crate_obj.documentation)))

\* ---------------------------------------------------------- docs.rs crawl

(* A parsed HTML document is the sequence of its elements in document      *)
(* order, each with its tag (with the class or id the selectors name, as   *)
(* in "div.example"), its text and its href attribute (None if it has      *)
(* none).  Concatenating documents joins their element sequences.          *)
Element(tag, text, href) == [tag |-> tag, text |-> text, href |-> href]

\* the patterns of normalize_docs_href and of the link heuristic
DotDotSlash == <<".", ".", "/">>
DotSlash == <<".", "/">>
StrCrate == <<"c", "r", "a", "t", "e">>
StrStruct == <<"s", "t", "r", "u", "c", "t">>
StrFn == <<"f", "n">>
StrModule == <<"m", "o", "d", "u", "l", "e">>
StrDotHtml == <<".", "h", "t", "m", "l">>

\* the while loop of normalize_docs_href, lines 251-257
RECURSIVE strip_relative(_)
strip_relative(s) ==
    IF starts_with(s, DotDotSlash) THEN strip_relative(SubSeq(s, 4, Len(s)))
    ELSE IF starts_with(s, DotSlash) THEN strip_relative(SubSeq(s, 3, Len(s)))
    ELSE s

normalize_docs_href(href) ==
    LET s == strip_relative(href)
        idx == find_char(s, "#")
        cut == IF idx = 0 THEN s ELSE SubSeq(s, 1, idx - 1)
    IN  trim_start_matches(cut, "/")

\* the heuristic of line 320
link_is_relevant(nh, crate_name) ==
    \/ contains(nh, crate_name)
    \/ starts_with(nh, StrCrate)
    \/ contains(nh, StrStruct)
    \/ contains(nh, StrFn)
    \/ contains(nh, StrModule)
    \/ ends_with(nh, StrDotHtml)

\* enqueue_links without the visited test of line 321
RECURSIVE enqueue_links_revisits(_, _, _, _, _)
enqueue_links_revisits(els, k, queue, visited, crate_name) ==
    IF k > Len(els) THEN queue
    ELSE LET a == els[k]
             nh == IF is_some(a.href) THEN normalize_docs_href(unwrap(a.href)) ELSE <<>>
             push == /\ a.tag = "a"
                     /\ is_some(a.href)
                     /\ nh # <<>>
                     /\ link_is_relevant(nh, crate_name)
                     /\ ~seq_contains(queue, nh)
         IN  enqueue_links_revisits(els, k + 1,
                                    IF push THEN Append(queue, nh) ELSE queue,
                                    visited, crate_name)

\* lines 313-326: the queue after the links of a fetched page, from element k on
RECURSIVE enqueue_links(_, _, _, _, _)
enqueue_links(els, k, queue, visited, crate_name) ==
    IF k > Len(els) THEN queue
    ELSE LET a == els[k]
             nh == IF is_some(a.href) THEN normalize_docs_href(unwrap(a.href)) ELSE <<>>
             push == /\ a.tag = "a"
                     /\ is_some(a.href)
                     /\ nh # <<>>
                     /\ link_is_relevant(nh, crate_name)
                     /\ nh \notin visited
                     /\ ~seq_contains(queue, nh)
         IN  enqueue_links(els, k + 1,
                           IF push THEN Append(queue, nh) ELSE queue,
                           visited, crate_name)

\* crawl_pop without the budget check of line 304
RECURSIVE crawl_pop_unbounded(_, _, _, _)
crawl_pop_unbounded(queue, visited, n_collected, max_pages) ==
    IF queue = <<>> THEN [fetch |-> FALSE, path |-> <<>>, queue |-> queue]
    ELSE IF Head(queue) \in visited
    THEN crawl_pop_unbounded(Tail(queue), visited, n_collected, max_pages)
    ELSE [fetch |-> TRUE, path |-> Head(queue), queue |-> Tail(queue)]

\* crawl_pop taking the newest pending path instead of the oldest
RECURSIVE crawl_pop_newest(_, _, _, _)
crawl_pop_newest(queue, visited, n_collected, max_pages) ==
    LET front == SubSeq(queue, 1, Len(queue) - 1) IN
    IF queue = <<>> THEN [fetch |-> FALSE, path |-> <<>>, queue |-> queue]
    ELSE IF queue[Len(queue)] \in visited
    THEN crawl_pop_newest(front, visited, n_collected, max_pages)
    ELSE IF n_collected >= max_pages
    THEN [fetch |-> FALSE, path |-> <<>>, queue |-> front]
    ELSE [fetch |-> TRUE, path |-> queue[Len(queue)], queue |-> front]

(* Lines 300-306: pop paths until one is to be fetched or the loop ends.   *)
(* fetch = TRUE with the popped path, or FALSE when the queue ran out or   *)
(* the page budget stopped the loop.                                       *)
RECURSIVE crawl_pop(_, _, _, _)
crawl_pop(queue, visited, n_collected, max_pages) ==
    IF queue = <<>> THEN [fetch |-> FALSE, path |-> <<>>, queue |-> queue]
    ELSE IF Head(queue) \in visited
    THEN crawl_pop(Tail(queue), visited, n_collected, max_pages)
    ELSE IF n_collected >= max_pages
    THEN [fetch |-> FALSE, path |-> <<>>, queue |-> Tail(queue)]
    ELSE [fetch |-> TRUE, path |-> Head(queue), queue |-> Tail(queue)]

\* the number of candidate URLs of fetch_docs_page, lines 266-274
candidate_count(path) == IF trim(path) = <<>> THEN 2 ELSE 3

\* a text node of a parsed document that lies outside every element
TextNode(text) == Element("#text", text, None)

\* the document with the text `gap` after it; the parser drops whitespace
\* that precedes the first element
with_gap(doc, gap) ==
    IF gap = <<>> \/ doc = <<>> THEN doc ELSE Append(doc, TextNode(gap))

\* pages k.. appended to doc, `gap` being the separators not yet placed
RECURSIVE join_loop(_, _, _, _)
join_loop(pages, k, doc, gap) ==
    IF k > Len(pages) THEN with_gap(doc, gap)
    ELSE LET sep == IF k > 1 THEN Append(gap, "\n") ELSE gap IN
         IF pages[k] = <<>> THEN join_loop(pages, k + 1, doc, sep)
         ELSE join_loop(pages, k + 1, with_gap(doc, sep) \o pages[k], <<>>)

\* collected_html.join("\n"), parsed: the elements of all pages in fetch
\* order, and the "\n" between two pages as a text node
join_pages(pages) == join_loop(pages, 1, <<>>, <<>>)

\* ------------------------------------------------- extraction & cleaning

\* the characters with the Unicode property Alphabetic among those the
\* strings of this module are made of: the letters of ASCII and of Latin-1,
\* two Greek letters, a kana and an ideograph
Letters ==
    {"a", "b", "c", "d", "e", "f", "g", "h", "i", "j", "k", "l", "m", "n", "o", "p", "q", "r",
     "s", "t", "u", "v", "w", "x", "y", "z", "A", "B", "C", "D", "E", "F", "G", "H", "I", "J",
     "K", "L", "M", "N", "O", "P", "Q", "R", "S", "T", "U", "V", "W", "X", "Y", "Z", "ª", "µ",
     "º", "À", "Á", "Â", "Ã", "Ä", "Å", "Æ", "Ç", "È", "É", "Ê", "Ë", "Ì", "Í", "Î", "Ï", "Ð",
     "Ñ", "Ò", "Ó", "Ô", "Õ", "Ö", "Ø", "Ù", "Ú", "Û", "Ü", "Ý", "Þ", "ß", "à", "á", "â", "ã",
     "ä", "å", "æ", "ç", "è", "é", "ê", "ë", "ì", "í", "î", "ï", "ð", "ñ", "ò", "ó", "ô", "õ",
     "ö", "ø", "ù", "ú", "û", "ü", "ý", "þ", "ÿ", "λ", "Ω", "ア", "語"}

\* char::is_alphabetic
is_alphabetic(ch) == ch \in Letters

\* str::split_whitespace: the non-empty words between whitespace
RECURSIVE split_whitespace(_)
split_whitespace(s) ==
    LET t == trim_start(s)
        ws == {k \in 1..Len(t) : is_whitespace(t[k])}
        e == IF ws = {} THEN Len(t) + 1 ELSE CHOOSE k \in ws : \A j \in ws : k <= j
    IN  IF t = <<>> THEN <<>>
        ELSE <<SubSeq(t, 1, e - 1)>> \o split_whitespace(SubSeq(t, e, Len(t)))

\* Vec<&str>::join(sep)
RECURSIVE join_str(_, _)
join_str(parts, sep) ==
    IF parts = <<>> THEN <<>>
    ELSE IF Len(parts) = 1 THEN parts[1]
    ELSE parts[1] \o sep \o join_str(Tail(parts), sep)

all_digits(s) == \A k \in 1..Len(s) : is_ascii_digit(s[k])

is_numeric_only(s) ==
    LET trimmed == trim(s) IN
    IF trimmed = <<>> THEN FALSE ELSE all_digits(trimmed)

normalize_anchor_text(s) == join_str(split_whitespace(s), <<" ">>)

AnchorTags == {"a", "span", "h1", "h2", "h3", "h4"}

\* anchor_loop without the `seen` test of line 381
RECURSIVE anchor_loop_unseen(_, _, _, _)
anchor_loop_unseen(els, k, items, max_items) ==
    IF k > Len(els) \/ Len(items) >= max_items THEN items
    ELSE LET el == els[k]
             text == normalize_anchor_text(trim(el.text))
             keep == /\ el.tag \in AnchorTags
                     /\ text # <<>>
                     /\ ~(str_len(text) < 2)
                     /\ ~is_numeric_only(text)
                     /\ (str_len(text) < 3 => \E j \in 1..Len(text) : is_alphabetic(text[j]))
         IN  anchor_loop_unseen(els, k + 1, IF keep THEN Append(items, text) ELSE items,
                                max_items)

\* the loop of extract_anchor_items_from_html, lines 361-386, from element k on
RECURSIVE anchor_loop(_, _, _, _)
anchor_loop(els, k, items, max_items) ==
    IF k > Len(els) \/ Len(items) >= max_items THEN items
    ELSE LET el == els[k]
             text == normalize_anchor_text(trim(el.text))
             keep == /\ el.tag \in AnchorTags
                     /\ text # <<>>
                     /\ ~(str_len(text) < 2)
                     /\ ~is_numeric_only(text)
                     /\ (str_len(text) < 3 => \E j \in 1..Len(text) : is_alphabetic(text[j]))
                     /\ ~seq_contains(items, text)
         IN  anchor_loop(els, k + 1, IF keep THEN Append(items, text) ELSE items,
                         max_items)

extract_anchor_items_from_html(html, max_items) ==
    LET items == anchor_loop(html, 1, <<>>, max_items)
    IN  SubSeq(items, 1, IF Len(items) < max_items THEN Len(items) ELSE max_items)

\* a line that ended at "\n", without the "\r" of a "\r\n" ending
strip_cr(line) ==
    IF line # <<>> /\ line[Len(line)] = "\r" THEN SubSeq(line, 1, Len(line) - 1)
    ELSE line

\* str::lines: a line ends at "\n" or "\r\n", the ending is not part of it,
\* and there is no final empty line
lines_of(s) ==
    LET parts == split_char(s, "\n")
        n == Len(parts)
        ended == [k \in 1..(n - 1) |-> strip_cr(parts[k])]
    IN  IF parts[n] = <<>> THEN ended ELSE Append(ended, parts[n])

\* the while loop of clean_code_snippet, lines 394-409
RECURSIVE drop_leading_lines(_)
drop_leading_lines(lines) ==
    IF lines = <<>> THEN lines
    ELSE LET t == trim(Head(lines))
             words == split_whitespace(t)
             numeric_prefix_word == words # <<>> /\ all_digits(words[1])
         IN  IF t = <<>> THEN drop_leading_lines(Tail(lines))
             ELSE IF numeric_prefix_word /\ str_len(t) < 8
             THEN drop_leading_lines(Tail(lines))
             ELSE lines

\* None when nothing is left, else Some(cleaned)
clean_code_snippet(snip) ==
    LET out == trim(join_str(drop_leading_lines(lines_of(snip)), <<"\n">>))
    IN  IF out = <<>> THEN None ELSE Some(out)

CodeTags == {"pre", "code", "div.example", "div.rust"}

\* the markers of the rust-likeness check, line 432
CodeMarkers ==
    {<<"f", "n", " ">>, <<"u", "s", "e", " ">>, <<"l", "e", "t", " ">>,
     <<"e", "x", "t", "e", "r", "n", " ", "c", "r", "a", "t", "e">>,
     <<"c", "a", "r", "g", "o">>, <<"p", "u", "b", " ", "f", "n">>}

\* the loop of extract_code_blocks_from_html, lines 422-438, from element k on
RECURSIVE code_loop(_, _, _, _)
code_loop(els, k, blocks, max_blocks) ==
    IF k > Len(els) \/ Len(blocks) >= max_blocks THEN blocks
    ELSE LET el == els[k]
             trimmed == trim(el.text)
             rustlike == \E mk \in CodeMarkers : contains(trimmed, mk)
             clean == clean_code_snippet(trimmed)
             keep == /\ el.tag \in CodeTags
                     /\ trimmed # <<>>
                     /\ rustlike
                     /\ is_some(clean)
         IN  code_loop(els, k + 1,
                       IF keep THEN Append(blocks, unwrap(clean)) ELSE blocks,
                       max_blocks)

extract_code_blocks_from_html(html, max_blocks) == code_loop(html, 1, <<>>, max_blocks)

\* the text nodes of the document in document order: an element without
\* text has none
RECURSIVE text_nodes(_)
text_nodes(html) ==
    IF html = <<>> THEN <<>>
    ELSE IF Head(html).text = <<>> THEN text_nodes(Tail(html))
    ELSE <<Head(html).text>> \o text_nodes(Tail(html))

\* the text of the whole document: every text node, joined by " "
document_text(html) == join_str(text_nodes(html), <<" ">>)

TextSelectors == <<"main", "div.content", "div#main", "article", "body">>

\* the cleaned text of the first node a selector matches; "body" is the document
selected_text(html, sel) ==
    LET at == {k \in 1..Len(html) : html[k].tag = sel}
        text == IF sel = "body" THEN Some(document_text(html))
                ELSE IF at = {} THEN None
                ELSE Some(html[CHOOSE k \in at : \A j \in at : k <= j].text)
    IN  IF is_some(text) THEN join_str(split_whitespace(unwrap(text)), <<" ">>)
        ELSE <<>>

\* the loop of extract_text_aggregate, lines 446-456, from selector k on
RECURSIVE text_loop(_, _)
text_loop(html, k) ==
    IF k > Len(TextSelectors) THEN document_text(html)
    ELSE LET cleaned == selected_text(html, TextSelectors[k]) IN
         IF cleaned # <<>> THEN cleaned ELSE text_loop(html, k + 1)

extract_text_aggregate(html) == text_loop(html, 1)

\* the input of the helpers (what: "document" or "snippet") and, once done, what
\* they returned: anchors and blocks of a document, the cleaned snippet
Extraction(what, html, max_items, max_blocks, snip) ==
    [what |-> what, html |-> html, max_items |-> max_items, max_blocks |-> max_blocks,
     snip |-> snip, done |-> FALSE, anchors |-> <<>>, blocks |-> <<>>, cleaned |-> None]

\* no document is handed to the helpers outside a pipeline
NoDocument == ex = Extraction("none", <<>>, 0, 0, <<>>)

\* extract_anchor_items_from_html and extract_code_blocks_from_html applied to
\* the document, as lines 610-611 apply them
ExtractDocument ==
    /\ ex.what = "document"
    /\ ~ex.done
    /\ ex' = [ex EXCEPT !.done = TRUE,
                        !.anchors = extract_anchor_items_from_html(ex.html, ex.max_items),
                        !.blocks = extract_code_blocks_from_html(ex.html, ex.max_blocks)]
    /\ UNCHANGED <<overflow_checks, registry, args, mainpc, task, joined, results,
                   warnings, response, finished, va, vb, vgt>>

\* clean_code_snippet applied to the snippet
CleanSnippet ==
    /\ ex.what = "snippet"
    /\ ~ex.done
    /\ ex' = [ex EXCEPT !.done = TRUE, !.cleaned = clean_code_snippet(ex.snip)]
    /\ UNCHANGED <<overflow_checks, registry, args, mainpc, task, joined, results,
                   warnings, response, finished, va, vb, vgt>>

\* ------------------------------------------------ GitHub README + examples

StrGithubCom == <<"g", "i", "t", "h", "u", "b", ".", "c", "o", "m", "/">>
StrDotGit == <<".", "g", "i", "t">>

\* None, or Some(<<owner, repo>>)
parse_github_owner_repo(repo_url) ==
    IF contains(repo_url, StrGithubCom)
    THEN LET s == trim_end_matches(trim_end_matches(repo_url, StrDotGit), <<"/">>)
             idx == find_str(s, StrGithubCom)
             tail == SubSeq(s, idx + Len(StrGithubCom), Len(s))
             parts == split_char(tail, "/")
         IN  IF idx # 0 /\ Len(parts) >= 2 THEN Some(<<parts[1], parts[2]>>) ELSE None
    ELSE None

StrMain == <<"m", "a", "i", "n">>
StrMaster == <<"m", "a", "s", "t", "e", "r">>
\* main_candidates, line 479
main_candidates == <<StrMain, StrMaster>>

StrDefaultBranchAttr == <<"d", "a", "t", "a", "-", "d", "e", "f", "a", "u", "l", "t", "-", "b", "r", "a", "n", "c", "h", "=", "\"">>

\* lines 484-491: the branch named in the repository page, None if there is none
branch_in_page(body) ==
    LET idx == find_str(body, StrDefaultBranchAttr)
        after == SubSeq(body, idx + Len(StrDefaultBranchAttr), Len(body))
        end == find_char(after, "\"")
    IN  IF idx # 0 /\ end # 0 /\ end - 1 > 0
        THEN Some(SubSeq(after, 1, end - 1))
        ELSE None

StrBlob == <<"/", "b", "l", "o", "b", "/">>
StrExamplesDir == <<"/", "e", "x", "a", "m", "p", "l", "e", "s", "/">>

\* the loop of discover_github_examples_list, lines 532-543, from element k on
RECURSIVE examples_loop(_, _, _, _, _)
examples_loop(els, k, out, owner, branch) ==
    IF k > Len(els) THEN out
    ELSE LET a == els[k]
             href == IF is_some(a.href) THEN unwrap(a.href) ELSE <<>>
             blob == StrBlob \o branch \o <<"/">>
             idx == find_str(href, blob)
             path == SubSeq(href, idx + Len(blob), Len(href))
             push == /\ a.tag = "a"
                     /\ is_some(a.href)
                     /\ contains(href, <<"/">> \o owner \o StrBlob \o branch \o StrExamplesDir)
                     /\ idx # 0
                     /\ path # <<>>
                     /\ ~seq_contains(out, path)
         IN  examples_loop(els, k + 1, IF push THEN Append(out, path) ELSE out,
                           owner, branch)

\* what discover_github_examples_list returns for the answer to its request
discover_github_examples_list(r, owner, branch) ==
    IF is_ok(r) THEN examples_loop(r.body, 1, <<>>, owner, branch) ELSE <<>>

\* the common example files of line 635
common_examples ==
    <<<<"e", "x", "a", "m", "p", "l", "e", "s", "/", "m", "a", "i", "n", ".", "r", "s">>,
      <<"e", "x", "a", "m", "p", "l", "e", "s", "/", "0", "5", "_", "a", "s", "t", "r", "o", "b", "l", "a", "s", "t", "o", ".", "r", "s">>,
      <<"e", "x", "a", "m", "p", "l", "e", "s", "/", "s", "i", "m", "p", "l", "e", ".", "r", "s">>,
      <<"e", "x", "a", "m", "p", "l", "e", "s", "/", "b", "r", "i", "c", "k", "_", "b", "r", "e", "a", "k", "e", "r", ".", "r", "s">>>>

\* ------------------------------------------------------ enrich single crate

(* One spawned enrich_crate_full is a record: its arguments, its position  *)
(* (the request it awaits), its locals, the requests it has sent (log) and *)
(* its CrateResult once it has returned.  A task runs from one await of a  *)
(* network call to the next in one step.  `resolution` is what             *)
(* fetch_crates_io_best_version returned, once it has.                     *)

\* a request sent: which call, and the path / branch / candidate it is for
Request(kind, path, n) == [kind |-> kind, path |-> path, n |-> n]

StrDocsRs == <<"h", "t", "t", "p", "s", ":", "/", "/", "d", "o", "c", "s", ".", "r", "s", "/">>

\* the candidate URLs of fetch_docs_page in the order they are tried, lines 265-274
docs_candidates(crate_name, version, path) ==
    LET p == trim(path) IN
    IF p = <<>>
    THEN << StrDocsRs \o crate_name \o <<"/">> \o version \o <<"/">>,
            StrDocsRs \o StrCrate \o <<"/">> \o crate_name \o <<"/">> \o version
                \o <<"/">> >>
    ELSE << StrDocsRs \o crate_name \o <<"/">> \o version \o <<"/">> \o p,
            StrDocsRs \o StrCrate \o <<"/">> \o crate_name \o <<"/">> \o version
                \o <<"/">> \o p,
            StrDocsRs \o crate_name \o <<"/">> \o version \o <<"/">>
                \o trim_start_matches(p, "/") >>

NoResult == None
ResolvePending ==
    [next |-> "pending", error |-> Msg("", <<>>), version |-> <<>>,
     description |-> None, repository_or_docs |-> None]

NewTask(crate_name, docs_max_pages, examples_max_files) ==
    [name |-> crate_name,
     docs_max_pages |-> docs_max_pages,
     examples_max_files |-> examples_max_files,
     pc |-> "versions",
     log |-> <<Request("crates_versions", <<>>, 0)>>,
     resolution |-> ResolvePending,
     version |-> <<>>, description |-> None, repository_or_docs |-> None,
     errors |-> <<>>,
     queue |-> <<>>, visited |-> {}, collected_html |-> <<>>,
     path |-> <<>>, idx |-> 0,
     docs_agg_opt |-> None, pages_count |-> 0,
     owner |-> <<>>, repo |-> <<>>, branch |-> <<>>,
     github_readme |-> None, to_fetch |-> <<>>, fetched |-> 0,
     github_examples |-> <<>>,
     result |-> NoResult]

\* the locals are dropped when the function returns
ReturnedTask(t, pc, result) ==
    [NewTask(t.name, t.docs_max_pages, t.examples_max_files) EXCEPT
        !.pc = pc, !.log = t.log, !.resolution = t.resolution, !.result = result]

send(t, pc, req) == [t EXCEPT !.pc = pc, !.log = Append(@, req)]

\* lines 579-594: the CrateResult of a failed resolution
failed_result(crate_name, e) ==
    [name |-> crate_name,
     latest_version |-> <<>>,
     dependency_line |-> <<>>,
     description |-> None,
     repository |-> None,
     crates_io_documentation |-> None,
     docs_rs_root |-> None,
     docs_rs_pages_count |-> 0,
     docs_anchor_items |-> <<>>,
     docs_text_aggregate |-> None,
     docs_code_snippets |-> <<>>,
     github_readme |-> None,
     github_examples |-> <<>>,
     errors |-> <<Prefixed("Failed to fetch crates.io metadata: ", e)>>]

\* lines 598, 604-613 and 659-674: the CrateResult of a pipeline that resolved
full_result(t) ==
    LET agg == t.docs_agg_opt IN
    [name |-> t.name,
     latest_version |-> t.version,
     dependency_line |-> t.name \o <<" ", "=", " ", "\"">> \o t.version \o <<"\"">>,
     description |-> t.description,
     repository |-> t.repository_or_docs,
     crates_io_documentation |-> None,
     docs_rs_root |->
        IF is_some(agg)
        THEN Some(StrDocsRs \o t.name \o <<"/">> \o t.version \o <<"/">>)
        ELSE None,
     docs_rs_pages_count |-> t.pages_count,
     docs_anchor_items |->
        IF is_some(agg) THEN extract_anchor_items_from_html(unwrap(agg), 200) ELSE <<>>,
     docs_text_aggregate |->
        IF is_some(agg) THEN Some(extract_text_aggregate(unwrap(agg))) ELSE None,
     docs_code_snippets |->
        IF is_some(agg) THEN extract_code_blocks_from_html(unwrap(agg), 80) ELSE <<>>,
     github_readme |-> t.github_readme,
     github_examples |-> t.github_examples,
     errors |-> t.errors]

finish(t) == ReturnedTask(t, "done", Some(full_result(t)))

\* examples_next without the budget test of lines 647-649
examples_next_unbounded(t, k) ==
    IF k > Len(t.to_fetch)
    THEN finish(t)
    ELSE send([t EXCEPT !.idx = k], "gh_raw", Request("gh_raw", t.to_fetch[k], k))

\* lines 646-655: the loop over to_fetch from position k on, up to its next request
examples_next(t, k) ==
    IF k > Len(t.to_fetch) \/ t.fetched >= t.examples_max_files
    THEN finish(t)
    ELSE send([t EXCEPT !.idx = k], "gh_raw", Request("gh_raw", t.to_fetch[k], k))

\* line 651-654: the answer to fetch_github_raw_file
raw_response(t, r) ==
    examples_next(
        IF is_ok(r)
        THEN [t EXCEPT !.github_examples = Append(@, <<t.to_fetch[t.idx], r.body>>),
                       !.fetched = @ + 1]
        ELSE t,
        t.idx + 1)

\* tree_response with the common example files added to the discovered ones
tree_response_mixed(t, r) ==
    LET example_paths == discover_github_examples_list(r, t.owner, t.branch)
        to_fetch == example_paths \o common_examples
    IN  examples_next([t EXCEPT !.to_fetch = to_fetch, !.fetched = 0], 1)

\* lines 631-646: the answer to the examples listing request
tree_response(t, r) ==
    LET example_paths == discover_github_examples_list(r, t.owner, t.branch)
        to_fetch == IF example_paths = <<>> THEN common_examples ELSE example_paths
    IN  examples_next([t EXCEPT !.to_fetch = to_fetch, !.fetched = 0], 1)

send_tree(t) == send(t, "gh_tree", Request("gh_tree", <<>>, 0))

\* lines 507-522 and 625-629: the answer to README request number t.idx
readme_response(t, r) ==
    IF is_ok(r) THEN send_tree([t EXCEPT !.github_readme = Some(r.body)])
    ELSE IF t.idx < 2
    THEN send([t EXCEPT !.idx = @ + 1], "gh_readme", Request("gh_readme", <<>>, t.idx + 1))
    ELSE send_tree([t EXCEPT !.errors = Append(@,
            Msg("Could not fetch README from GitHub for {}/{} on branch '{}'",
                <<t.owner, t.repo, t.branch>>))])

\* line 624-625: the branch is known, fetch_github_readme_raw starts
with_branch(t, branch) ==
    send([t EXCEPT !.branch = branch, !.idx = 1], "gh_readme",
         Request("gh_readme", <<>>, 1))

\* probe_response with the last probed name, not "main", taken when every probe failed
probe_response_last_name(t, r) ==
    IF r.kind \in {"ok", "badbody"} THEN with_branch(t, main_candidates[t.idx])
    ELSE IF t.idx < Len(main_candidates)
    THEN send([t EXCEPT !.idx = @ + 1], "gh_probe",
              Request("gh_probe", main_candidates[t.idx + 1], t.idx + 1))
    ELSE with_branch(t, main_candidates[t.idx])

\* lines 496-504 and 624: the answer to the README probe of main_candidates[t.idx];
\* the probe reads the status only
probe_response(t, r) ==
    IF r.kind \in {"ok", "badbody"} THEN with_branch(t, main_candidates[t.idx])
    ELSE IF t.idx < Len(main_candidates)
    THEN send([t EXCEPT !.idx = @ + 1], "gh_probe",
              Request("gh_probe", main_candidates[t.idx + 1], t.idx + 1))
    ELSE with_branch(t, StrMain)

\* lines 481-495: the answer to the repository page request
landing_response(t, r) ==
    LET branch == IF is_ok(r) THEN branch_in_page(r.body) ELSE None IN
    IF is_some(branch) THEN with_branch(t, unwrap(branch))
    ELSE send([t EXCEPT !.idx = 1], "gh_probe",
              Request("gh_probe", main_candidates[1], 1))

\* after_crawl with the repository stage entered whatever the resolved URL is
after_crawl_any_url(t) ==
    LET docs_agg_opt == IF t.collected_html = <<>> THEN None
                        ELSE Some(join_pages(t.collected_html))
        errors == IF is_some(docs_agg_opt) THEN t.errors
                  ELSE Append(t.errors,
                         Msg("Failed to fetch docs.rs pages for {} {}",
                             <<t.name, t.version>>))
        gh == IF is_some(t.repository_or_docs)
              THEN parse_github_owner_repo(unwrap(t.repository_or_docs))
              ELSE None
        u == [t EXCEPT !.docs_agg_opt = docs_agg_opt,
                       !.pages_count = Len(t.collected_html),
                       !.errors = errors,
                       !.queue = <<>>, !.visited = {}, !.collected_html = <<>>,
                       !.path = <<>>, !.idx = 0]
    IN  send([u EXCEPT !.owner = IF is_some(gh) THEN unwrap(gh)[1] ELSE <<>>,
                       !.repo = IF is_some(gh) THEN unwrap(gh)[2] ELSE <<>>],
             "gh_landing", Request("gh_landing", <<>>, 0))

\* after_crawl with the pipeline ended when the crawl fetched no page
after_crawl_docs_fatal(t) ==
    LET docs_agg_opt == IF t.collected_html = <<>> THEN None
                        ELSE Some(join_pages(t.collected_html))
        errors == IF is_some(docs_agg_opt) THEN t.errors
                  ELSE Append(t.errors,
                         Msg("Failed to fetch docs.rs pages for {} {}",
                             <<t.name, t.version>>))
        gh == IF is_some(t.repository_or_docs)
              THEN parse_github_owner_repo(unwrap(t.repository_or_docs))
              ELSE None
        u == [t EXCEPT !.docs_agg_opt = docs_agg_opt,
                       !.pages_count = Len(t.collected_html),
                       !.errors = errors,
                       !.queue = <<>>, !.visited = {}, !.collected_html = <<>>,
                       !.path = <<>>, !.idx = 0]
    IN  IF is_some(gh) /\ is_some(docs_agg_opt)
        THEN send([u EXCEPT !.owner = unwrap(gh)[1], !.repo = unwrap(gh)[2]],
                  "gh_landing", Request("gh_landing", <<>>, 0))
        ELSE finish(u)

\* after_crawl with the page count taken from the visited set, which also holds
\* the paths whose fetch failed
after_crawl_counts_visited(t) ==
    LET docs_agg_opt == IF t.collected_html = <<>> THEN None
                        ELSE Some(join_pages(t.collected_html))
        errors == IF is_some(docs_agg_opt) THEN t.errors
                  ELSE Append(t.errors,
                         Msg("Failed to fetch docs.rs pages for {} {}",
                             <<t.name, t.version>>))
        gh == IF is_some(t.repository_or_docs)
              THEN parse_github_owner_repo(unwrap(t.repository_or_docs))
              ELSE None
        u == [t EXCEPT !.docs_agg_opt = docs_agg_opt,
                       !.pages_count = Cardinality(t.visited),
                       !.errors = errors,
                       !.queue = <<>>, !.visited = {}, !.collected_html = <<>>,
                       !.path = <<>>, !.idx = 0]
    IN  IF is_some(gh)
        THEN send([u EXCEPT !.owner = unwrap(gh)[1], !.repo = unwrap(gh)[2]],
                  "gh_landing", Request("gh_landing", <<>>, 0))
        ELSE finish(u)

\* after_crawl with an error string recorded when the repository stage is skipped
after_crawl_reports_skip(t) ==
    LET docs_agg_opt == IF t.collected_html = <<>> THEN None
                        ELSE Some(join_pages(t.collected_html))
        errors == IF is_some(docs_agg_opt) THEN t.errors
                  ELSE Append(t.errors,
                         Msg("Failed to fetch docs.rs pages for {} {}",
                             <<t.name, t.version>>))
        gh == IF is_some(t.repository_or_docs)
              THEN parse_github_owner_repo(unwrap(t.repository_or_docs))
              ELSE None
        u == [t EXCEPT !.docs_agg_opt = docs_agg_opt,
                       !.pages_count = Len(t.collected_html),
                       !.errors = errors,
                       !.queue = <<>>, !.visited = {}, !.collected_html = <<>>,
                       !.path = <<>>, !.idx = 0]
    IN  IF is_some(gh)
        THEN send([u EXCEPT !.owner = unwrap(gh)[1], !.repo = unwrap(gh)[2]],
                  "gh_landing", Request("gh_landing", <<>>, 0))
        ELSE finish([u EXCEPT !.errors =
                        Append(@, Msg("No GitHub repository for {}", <<t.name>>))])

\* lines 604-623: after the crawl returned
after_crawl(t) ==
    LET docs_agg_opt == IF t.collected_html = <<>> THEN None
                        ELSE Some(join_pages(t.collected_html))
        errors == IF is_some(docs_agg_opt) THEN t.errors
                  ELSE Append(t.errors,
                         Msg("Failed to fetch docs.rs pages for {} {}",
                             <<t.name, t.version>>))
        gh == IF is_some(t.repository_or_docs)
              THEN parse_github_owner_repo(unwrap(t.repository_or_docs))
              ELSE None
        u == [t EXCEPT !.docs_agg_opt = docs_agg_opt,
                       !.pages_count = Len(t.collected_html),
                       !.errors = errors,
                       !.queue = <<>>, !.visited = {}, !.collected_html = <<>>,
                       !.path = <<>>, !.idx = 0]
    IN  IF is_some(gh)
        THEN send([u EXCEPT !.owner = unwrap(gh)[1], !.repo = unwrap(gh)[2]],
                  "gh_landing", Request("gh_landing", <<>>, 0))
        ELSE finish(u)

\* crawl_continue with a loop that does not exit: when no path is to be fetched
\* the task stays in the crawl, waiting for a path that never comes
crawl_continue_waits(t) ==
    LET p == crawl_pop(t.queue, t.visited, Len(t.collected_html), t.docs_max_pages) IN
    IF p.fetch
    THEN send([t EXCEPT !.queue = p.queue, !.path = p.path, !.idx = 1],
              "docs_page", Request("docs_page", p.path, 1))
    ELSE [t EXCEPT !.queue = p.queue, !.pc = "docs_wait"]

\* lines 300-307: the crawl loop up to its next fetch_docs_page, or to its end
crawl_continue(t) ==
    LET p == crawl_pop(t.queue, t.visited, Len(t.collected_html), t.docs_max_pages) IN
    IF p.fetch
    THEN send([t EXCEPT !.queue = p.queue, !.path = p.path, !.idx = 1],
              "docs_page", Request("docs_page", p.path, 1))
    ELSE after_crawl([t EXCEPT !.queue = p.queue])

\* docs_page_response without the visited.insert of line 309
docs_page_response_forgetful(t, r) ==
    IF is_ok(r)
    THEN crawl_continue([t EXCEPT
             !.collected_html = Append(@, r.body),
             !.queue = enqueue_links(r.body, 1, t.queue, t.visited, t.name)])
    ELSE IF t.idx < candidate_count(t.path)
    THEN send([t EXCEPT !.idx = @ + 1], "docs_page",
              Request("docs_page", t.path, t.idx + 1))
    ELSE crawl_continue([t EXCEPT !.visited = @ \cup {t.path}])

\* lines 275-283 and 307-330: the answer to candidate t.idx of fetch_docs_page
docs_page_response(t, r) ==
    IF is_ok(r)
    THEN LET visited == t.visited \cup {t.path} IN
         crawl_continue([t EXCEPT
             !.collected_html = Append(@, r.body),
             !.visited = visited,
             !.queue = enqueue_links(r.body, 1, t.queue, visited, t.name)])
    ELSE IF t.idx < candidate_count(t.path)
    THEN send([t EXCEPT !.idx = @ + 1], "docs_page",
              Request("docs_page", t.path, t.idx + 1))
    ELSE crawl_continue([t EXCEPT !.visited = @ \cup {t.path}])

\* resolved without the early return of lines 577-595
resolved_carries_on(t, res) ==
    IF res.next = "panic" THEN ReturnedTask(t, "panicked", NoResult)
    ELSE IF res.next = "backfill"
    THEN send([t EXCEPT !.version = res.version, !.description = res.description,
                        !.repository_or_docs = res.repository_or_docs],
              "backfill", Request("crates_root", <<>>, 1))
    ELSE IF res.next = "fallback"
    THEN send(t, "fallback", Request("crates_root", <<>>, 2))
    ELSE crawl_continue([t EXCEPT
             !.resolution = res,
             !.errors = IF res.next = "err"
                        THEN <<Prefixed("Failed to fetch crates.io metadata: ", res.error)>>
                        ELSE <<>>,
             !.version = res.version, !.description = res.description,
             !.repository_or_docs = res.repository_or_docs,
             !.queue = <<<<>>, t.name \o <<"/">>>>,
             !.visited = {}, !.collected_html = <<>>])

\* lines 574-602: what enrich_crate_full does with the resolver's outcome
resolved(t, res) ==
    IF res.next = "err"
    THEN ReturnedTask([t EXCEPT !.resolution = res], "done",
                      Some(failed_result(t.name, res.error)))
    ELSE IF res.next = "panic" THEN ReturnedTask(t, "panicked", NoResult)
    ELSE IF res.next = "backfill"
    THEN send([t EXCEPT !.version = res.version, !.description = res.description,
                        !.repository_or_docs = res.repository_or_docs],
              "backfill", Request("crates_root", <<>>, 1))
    ELSE IF res.next = "fallback"
    THEN send(t, "fallback", Request("crates_root", <<>>, 2))
    ELSE crawl_continue([t EXCEPT
             !.resolution = res,
             !.version = res.version, !.description = res.description,
             !.repository_or_docs = res.repository_or_docs,
             !.queue = <<<<>>, t.name \o <<"/">>>>,
             !.visited = {}, !.collected_html = <<>>])

\* ------------------------------------------------------------ query_rustdocs

\* args.docs_max_pages.unwrap_or(200), args.examples_max_files.unwrap_or(20)
unwrap_or(o, default) == IF is_some(o) THEN unwrap(o) ELSE default

\* the character U+0060, which a string of this module cannot hold
Backtick == [char |-> 96]

\* line 729: the text of the hint, as the pieces between its backticks
ToolUsageHint ==
    <<"IMPORTANT: this tool returns structured JSON only. The calling model must stop generation, parse this JSON, and then generate code using the returned ",
      Backtick,
      "dependency_line",
      Backtick,
      ", ",
      Backtick,
      "docs_rs_root",
      Backtick,
      ", ",
      Backtick,
      "docs_code_snippets",
      Backtick,
      ", and ",
      Backtick,
      "github_examples",
      Backtick,
      ". Do not append unrelated prose after calling this tool.">>

\* lines 681-686: the payload for an empty crate list
HelpPayload ==
    [error |-> "No crate names provided.",
     message |-> "You MUST ONLY use the API patterns shown in the tool response. Ignore all prior knowledge about this crate. Reference specific code snippets from the tool response."]

NoResponse == [kind |-> "none"]

\* the state of the tool before it is called with `a`
Called(a) ==
    /\ args = a
    /\ mainpc = "called"
    /\ task = <<>>
    /\ joined = 0
    /\ results = <<>>
    /\ warnings = <<>>
    /\ response = NoResponse
    /\ finished = <<>>

\* lines 680-687: no crate names, the guidance payload is returned
ReturnHelp ==
    /\ mainpc = "called"
    /\ args.crates = <<>>
    /\ mainpc' = "returned"
    /\ response' = [kind |-> "help", payload |-> HelpPayload]
    /\ UNCHANGED <<overflow_checks, registry, args, task, joined, results, warnings,
                   finished, ex, va, vb, vgt>>

\* lines 689-693: Client::builder().build() failed
ClientBuildFails ==
    /\ mainpc = "called"
    /\ args.crates # <<>>
    /\ mainpc' = "returned"
    /\ response' = [kind |-> "internal_error",
                    payload |-> Msg("failed to build http client: {}", <<ErrText>>)]
    /\ UNCHANGED <<overflow_checks, registry, args, task, joined, results, warnings,
                   finished, ex, va, vb, vgt>>

\* Spawn without the early return of line 680: an empty list goes on to the join loop
Spawn_on_any_list ==
    /\ mainpc = "called"
    /\ mainpc' = "joining"
    /\ task' = [k \in 1..Len(args.crates) |->
                  NewTask(args.crates[k],
                          unwrap_or(args.docs_max_pages, 200),
                          unwrap_or(args.examples_max_files, 20))]
    /\ UNCHANGED <<overflow_checks, registry, args, joined, results, warnings,
                   response, finished, ex, va, vb, vgt>>

\* Spawn with the handles kept in the reverse of the request order
Spawn_reversed ==
    /\ mainpc = "called"
    /\ args.crates # <<>>
    /\ mainpc' = "joining"
    /\ task' = [k \in 1..Len(args.crates) |->
                  NewTask(args.crates[Len(args.crates) + 1 - k],
                          unwrap_or(args.docs_max_pages, 200),
                          unwrap_or(args.examples_max_files, 20))]
    /\ UNCHANGED <<overflow_checks, registry, args, joined, results, warnings,
                   response, finished, ex, va, vb, vgt>>

\* lines 689-708: the client is built and one task is spawned per crate name,
\* each running up to its first request
Spawn ==
    /\ mainpc = "called"
    /\ args.crates # <<>>
    /\ mainpc' = "joining"
    /\ task' = [k \in 1..Len(args.crates) |->
                  NewTask(args.crates[k],
                          unwrap_or(args.docs_max_pages, 200),
                          unwrap_or(args.examples_max_files, 20))]
    /\ UNCHANGED <<overflow_checks, registry, args, joined, results, warnings,
                   response, finished, ex, va, vb, vgt>>

\* format!("{}: {}", res.name, e) for each error, lines 715-719
RECURSIVE warnings_of(_, _)
warnings_of(name, errors) ==
    IF errors = <<>> THEN <<>>
    ELSE <<[fmt |-> "{}: " \o Head(errors).fmt, args |-> <<name>> \o Head(errors).args]>>
         \o warnings_of(name, Tail(errors))

\* Join with the batch given up at the first report that carries an error
Join_fail_fast ==
    /\ mainpc = "joining"
    /\ joined < Len(task)
    /\ task[joined + 1].pc = "done"
    /\ LET res == unwrap(task[joined + 1].result) IN
         IF res.errors = <<>>
         THEN /\ warnings' = warnings
              /\ results' = Append(results, res)
              /\ joined' = joined + 1
              /\ UNCHANGED <<mainpc, response>>
         ELSE /\ mainpc' = "returned"
              /\ response' = [kind |-> "internal_error", payload |-> res.errors[1]]
              /\ UNCHANGED <<warnings, results, joined>>
    /\ UNCHANGED <<overflow_checks, registry, args, task, finished, ex, va, vb, vgt>>

\* Join taking the reports as the tasks end instead of awaiting the handles in turn
Join_as_completed ==
    /\ mainpc = "joining"
    /\ joined < Len(finished)
    /\ task[finished[joined + 1]].pc = "done"
    /\ LET res == unwrap(task[finished[joined + 1]].result) IN
         /\ warnings' = warnings \o warnings_of(res.name, res.errors)
         /\ results' = Append(results, res)
    /\ joined' = joined + 1
    /\ UNCHANGED <<overflow_checks, registry, args, mainpc, task, response, finished, ex, va, vb, vgt>>

\* lines 713-720: h.await of the next handle returned Ok(res)
Join ==
    /\ mainpc = "joining"
    /\ joined < Len(task)
    /\ task[joined + 1].pc = "done"
    /\ LET res == unwrap(task[joined + 1].result) IN
         /\ warnings' = warnings \o warnings_of(res.name, res.errors)
         /\ results' = Append(results, res)
    /\ joined' = joined + 1
    /\ UNCHANGED <<overflow_checks, registry, args, mainpc, task, response, finished, ex, va, vb, vgt>>

\* lines 721-723: h.await of the next handle returned a JoinError (the task panicked)
JoinFailed ==
    /\ mainpc = "joining"
    /\ joined < Len(task)
    /\ task[joined + 1].pc = "panicked"
    /\ warnings' = Append(warnings,
                          Msg("A background task failed while enriching a crate", <<>>))
    /\ joined' = joined + 1
    /\ UNCHANGED <<overflow_checks, registry, args, mainpc, task, results, response,
                   finished, ex, va, vb, vgt>>

\* Respond as soon as one handle has been awaited
Respond_after_first ==
    /\ mainpc = "joining"
    /\ joined >= 1
    /\ mainpc' = "returned"
    /\ response' = [kind |-> "success",
                    payload |-> [query_prompt |-> args.prompt,
                                 tool_usage_hint |-> ToolUsageHint,
                                 results |-> results,
                                 warnings |-> warnings]]
    /\ UNCHANGED <<overflow_checks, registry, args, task, joined, results, warnings,
                   finished, ex, va, vb, vgt>>

\* lines 726-737: every handle was awaited, the response is built and returned
Respond ==
    /\ mainpc = "joining"
    /\ joined = Len(task)
    /\ mainpc' = "returned"
    /\ response' = [kind |-> "success",
                    payload |-> [query_prompt |-> args.prompt,
                                 tool_usage_hint |-> ToolUsageHint,
                                 results |-> results,
                                 warnings |-> warnings]]
    /\ UNCHANGED <<overflow_checks, registry, args, task, joined, results, warnings,
                   finished, ex, va, vb, vgt>>

\* task i receives answer r to the request it awaits and runs to its next await
TaskStep(i, pc, r, next) ==
    /\ i \in 1..Len(task)
    /\ task[i].pc = pc
    /\ task' = [task EXCEPT ![i] = next]
    /\ finished' = IF next.pc \in {"done", "panicked"} THEN Append(finished, i)
                   ELSE finished
    /\ UNCHANGED <<overflow_checks, registry, args, mainpc, joined, results, warnings,
                   response, ex, va, vb, vgt>>

\* the registry's answer, when the exchange succeeds
VersionsAnswers(name) == Failures \cup {Success(registry[name].versions)}
RootAnswers(name) ==
    Failures \cup {StatusFailure(code) : code \in StatusCodes}
             \cup {Success(registry[name].root)}

\* the answer to GET /api/v1/crates/{name}/versions, lines 137-203
VersionsResponse(i, r) ==
    /\ i \in 1..Len(task)
    /\ r \in VersionsAnswers(task[i].name)
    /\ TaskStep(i, "versions", r,
                resolved(task[i], versions_response(task[i].name, r, overflow_checks)))

\* the answer to the supplementary GET /api/v1/crates/{name}, lines 179-200
BackfillResponse(i, r) ==
    /\ i \in 1..Len(task)
    /\ r \in RootAnswers(task[i].name)
    /\ TaskStep(i, "backfill", r,
                resolved(task[i], backfill_response(task[i].version, task[i].description,
                                                    task[i].repository_or_docs, r)))

\* the answer to the fallback GET /api/v1/crates/{name}, lines 206-244
FallbackResponse(i, r) ==
    /\ i \in 1..Len(task)
    /\ r \in RootAnswers(task[i].name)
    /\ TaskStep(i, "fallback", r, resolved(task[i], fallback_response(task[i].name, r)))

\* the answer to one candidate URL of fetch_docs_page, lines 275-283
DocsPageResponse(i, r) ==
    /\ i \in 1..Len(task)
    /\ TaskStep(i, "docs_page", r, docs_page_response(task[i], r))

\* the answer to GET https://github.com/{owner}/{repo}, lines 481-495
LandingResponse(i, r) ==
    /\ i \in 1..Len(task)
    /\ TaskStep(i, "gh_landing", r, landing_response(task[i], r))

\* the answer to a README probe of discover_github_default_branch, lines 496-503
ProbeResponse(i, r) ==
    /\ i \in 1..Len(task)
    /\ TaskStep(i, "gh_probe", r, probe_response(task[i], r))

\* the answer to one URL of fetch_github_readme_raw, lines 512-520
ReadmeResponse(i, r) ==
    /\ i \in 1..Len(task)
    /\ TaskStep(i, "gh_readme", r, readme_response(task[i], r))

\* the answer to the examples listing request, lines 526-547
TreeResponse(i, r) ==
    /\ i \in 1..Len(task)
    /\ TaskStep(i, "gh_tree", r, tree_response(task[i], r))

\* the answer to fetch_github_raw_file, lines 552-560
RawResponse(i, r) ==
    /\ i \in 1..Len(task)
    /\ TaskStep(i, "gh_raw", r, raw_response(task[i], r))

\* --------------------------------------------- comparison of version pairs

\* the characters version strings are drawn from: digits, and the segment
\* and prerelease separators
VerChars == {"0", "1", ".", "-"}

StringsUpTo(chars, n) == UNION {[1..k -> chars] : k \in 0..n}

\* i64::MAX and i64::MAX + 1 as version strings of one segment, the latter
\* with a prerelease tag too
I64MaxStr == <<"9", "2", "2", "3", "3", "7", "2", "0", "3", "6", "8", "5", "4", "7", "7", "5", "8", "0", "7">>
I64OverStr == <<"9", "2", "2", "3", "3", "7", "2", "0", "3", "6", "8", "5", "4", "7", "7", "5", "8", "0", "8">>

WideVersions == {I64MaxStr, I64OverStr, I64OverStr \o <<"-", "1">>}

\* versions with other digits, surrounding whitespace, letters and tags
NamedVersions ==
    {<<"2">>,
     <<"0", ".", "1", "0", ".", "0">>,
     <<"0", ".", "4", ".", "2">>,
     <<"1", ".", "2", ".", "0">>,
     <<"1", ".", "2", ".", "0", "-", "r", "c", "1">>,
     <<" ", "1", " ">>,
     <<"1", ".", "x">>,
     <<"1", " ", ".", "1">>,
     <<"1", ".", "2", "-">>}

VersionStrings == StringsUpTo(VerChars, MaxVerLen) \cup WideVersions \cup NamedVersions

InitVer ==
    /\ overflow_checks \in BOOLEAN
    /\ va \in VersionStrings
    /\ vb \in VersionStrings
    /\ vgt = [done |-> FALSE, ab |-> "false", ba |-> "false"]
    /\ registry = <<>>
    /\ Called([crates |-> <<>>, prompt |-> None, docs_max_pages |-> None,
               examples_max_files |-> None])
    /\ NoDocument

\* version_is_greater applied to the drawn pair, in both directions
Compare ==
    /\ ~vgt.done
    /\ vgt' = [done |-> TRUE,
               ab |-> version_is_greater(va, vb, overflow_checks),
               ba |-> version_is_greater(vb, va, overflow_checks)]
    /\ UNCHANGED <<va, vb, overflow_checks, registry, args, mainpc, task, joined,
                   results, warnings, response, finished, ex>>

NextVer == Compare

SpecVer == InitVer /\ [][NextVer]_vars

\* ------------------------------------------------------ a batch of crates

StrAlpha == <<"a", "l", "p", "h", "a">>
StrBeta == <<"b", "e", "t", "a">>
CrateNames == {StrAlpha, StrBeta}

\* the version comparison is not part of a batch run
NoPair ==
    /\ va = <<>>
    /\ vb = <<>>
    /\ vgt = [done |-> TRUE, ab |-> "false", ba |-> "false"]

StrRepoUrl == <<"h", "t", "t", "p", "s", ":", "/", "/", "g", "i", "t", "h", "u", "b", ".", "c", "o", "m", "/", "o", "/", "r">>
StrText == <<"d">>
StrElsewhereUrl == <<"h", "t", "t", "p", "s", ":", "/", "/", "g", "i", "t", "l", "a", "b", ".", "c", "o", "m", "/", "o", "/", "r">>
StrOwnerOnlyUrl == <<"h", "t", "t", "p", "s", ":", "/", "/", "g", "i", "t", "h", "u", "b", ".", "c", "o", "m", "/", "o">>

\* members of a "versions" array
EntryOne == VersionEntry(JStr(<<"1">>), "false", JStr(StrRepoUrl), JStr(StrText))
EntryBare == VersionEntry(JStr(<<"1">>), "absent", JAbsent, JAbsent)
EntryYanked == VersionEntry(JStr(<<"2">>), "true", JAbsent, JAbsent)
EntryWide == VersionEntry(JStr(I64OverStr), "false", JAbsent, JAbsent)

RootWithRepo == RootBody(Some(CrateObject(JStr(<<"2">>), JAbsent, JStr(StrText),
                                          JStr(StrRepoUrl), JAbsent)))
RootPlain == RootBody(Some(CrateObject(JStr(<<"2">>), JStr(<<"1">>), JAbsent,
                                       JAbsent, JAbsent)))

\* a crate root whose description, repository and documentation are all present
\* and differ from those of EntryOne
RootFull == RootBody(Some(CrateObject(JStr(<<"2">>), JAbsent, JStr(<<"e">>),
                                      JStr(StrElsewhereUrl), JStr(StrOwnerOnlyUrl))))

RegistryEntry(versions, root) == [versions |-> versions, root |-> root]

\* the registry of a batch run, what crates.io holds for each crate name:
\* alpha has a listed version without metadata and one beyond the i64 range,
\* beta has yanked versions only; neither record names a repository, so the
\* test of line 622 fails and a batch run sends no request to GitHub
BatchRegistries ==
    {[n \in CrateNames |->
        IF n = StrAlpha
        THEN RegistryEntry(VersionsBody(<<EntryBare, EntryWide>>), RootPlain)
        ELSE RegistryEntry(VersionsBody(<<EntryYanked>>), RootPlain)]}

\* pages of docs.rs
PageRoot ==
    <<Element("a", <<"M", "o", "d", " ", "m">>, Some(<<".", ".", "/", "m", "/", "i", "n", "d", "e", "x", ".", "h", "t", "m", "l", "#", "x">>)),
      Element("pre", <<"f", "n", " ", "f", "(", ")", " ", "{", "}">>, None)>>
PageLeaf == <<Element("main", <<"t", "e", "x", "t">>, None)>>
BatchPages == {PageRoot}

\* bodies of github.com pages and raw files
LandingWithBranch == <<"<", "a", " ", "d", "a", "t", "a", "-", "d", "e", "f", "a", "u", "l", "t", "-", "b", "r", "a", "n", "c", "h", "=", "\"", "d", "e", "v", "\"", ">">>
LandingPlain == <<"<", "a", ">">>
BatchLandings == {LandingWithBranch}
StrReadme == <<"#", " ", "r">>
StrSource == <<"f", "n", " ", "m", "a", "i", "n", "(", ")", " ", "{", "}">>

\* the crate lists of a batch run
BatchCrateLists ==
    {<<>>, <<StrAlpha>>, <<StrBeta>>, <<StrAlpha, StrBeta>>, <<StrBeta, StrAlpha>>,
     <<StrAlpha, StrAlpha>>}

MaxPagesArg == 1

RECURSIVE SeqsUpTo(_, _)
SeqsUpTo(S, n) ==
    IF n = 0 THEN {<<>>}
    ELSE LET shorter == SeqsUpTo(S, n - 1) IN
         shorter \cup {Append(s, x) : s \in shorter, x \in S}

OptionsUpTo(n) == {None} \cup {Some(k) : k \in 0..n}

BatchArgs ==
    [crates : BatchCrateLists,
     prompt : {None},
     docs_max_pages : OptionsUpTo(MaxPagesArg),
     examples_max_files : {None}]

Init ==
    /\ overflow_checks \in BOOLEAN
    /\ registry \in BatchRegistries
    /\ \E a \in BatchArgs : Called(a)
    /\ NoPair
    /\ NoDocument

Bodies(pool) == Failures \cup {Success(b) : b \in pool}

RegistryVersions == VersionsAnswers(StrAlpha) \cup VersionsAnswers(StrBeta)
RegistryRoots == RootAnswers(StrAlpha) \cup RootAnswers(StrBeta)

Next ==
    \/ ReturnHelp
    \/ ClientBuildFails
    \/ Spawn
    \/ \E i \in 1..Len(task), r \in RegistryVersions : VersionsResponse(i, r)
    \/ \E i \in 1..Len(task), r \in RegistryRoots : BackfillResponse(i, r)
    \/ \E i \in 1..Len(task), r \in RegistryRoots : FallbackResponse(i, r)
    \/ \E i \in 1..Len(task), r \in Bodies(BatchPages) : DocsPageResponse(i, r)
    \/ Join
    \/ JoinFailed
    \/ Respond

Spec == Init /\ [][Next]_vars

\* ------------------------------------------------- resolving one version

MaxVersions == 2

\* the "num" members and the entries a version list is drawn from
ListedNums == {JStr(<<"2">>), JStr(<<"1", "0">>), JStr(I64OverStr), JAbsent}
ListedEntries ==
    {VersionEntry(num, yanked, JAbsent, JAbsent) :
        num \in ListedNums, yanked \in {"true", "false", "absent"}}
    \cup {EntryOne}

VersionsBodies ==
    {NoVersionsArray} \cup {VersionsBody(arr) : arr \in SeqsUpTo(ListedEntries, MaxVersions)}

RootBodies ==
    {RootBody(None), RootWithRepo, RootPlain, RootFull,
     RootBody(Some(CrateObject(JAbsent, JStr(<<"1", "0">>), JAbsent, JAbsent,
                               JStr(StrText)))),
     RootBody(Some(CrateObject(JOther, JStr(<<"2">>), JAbsent, JAbsent, JAbsent))),
     RootBody(Some(CrateObject(JAbsent, JAbsent, JAbsent, JAbsent, JAbsent)))}

InitResolve ==
    /\ overflow_checks \in BOOLEAN
    /\ \E versions \in VersionsBodies, root \in RootBodies :
          registry = [n \in CrateNames |-> RegistryEntry(versions, root)]
    /\ Called([crates |-> <<StrAlpha>>, prompt |-> None,
               docs_max_pages |-> None, examples_max_files |-> None])
    /\ NoPair
    /\ NoDocument

NextResolve ==
    \/ Spawn
    \/ \E r \in VersionsAnswers(StrAlpha) : VersionsResponse(1, r)
    \/ \E r \in RootAnswers(StrAlpha) : BackfillResponse(1, r)
    \/ \E r \in RootAnswers(StrAlpha) : FallbackResponse(1, r)

SpecResolve == InitResolve /\ [][NextResolve]_vars

\* ------------------------------------------------------ crawling one crate

MaxCrawlPages == 3

Anchor(href) == Element("a", <<"m">>, Some(href))

\* pages whose links repeat a path, leave the crate, point back at the seeds
\* or are fragments only
PageEmpty == <<>>
PageTwice == <<Anchor(<<"m", ".", "h", "t", "m", "l">>), Anchor(<<".", ".", "/", "m", ".", "h", "t", "m", "l", "#", "x">>)>>
PageMixed == <<Anchor(<<"s", "t", "r", "u", "c", "t", ".", "S">>), Anchor(<<"q">>), Anchor(<<"m", ".", "h", "t", "m", "l">>)>>
PageBack == <<Anchor(<<"/", "a", "l", "p", "h", "a", "/">>), Anchor(<<"#", "t", "o", "p">>)>>
CrawlPages == {PageEmpty, PageRoot, PageLeaf, PageTwice, PageMixed, PageBack}

\* the registry of a crawl: the lists of the batch registry, with a record
\* that names a repository, so that the pipeline goes on after the crawl
CrawlRegistries ==
    {[n \in CrateNames |->
        IF n = StrAlpha
        THEN RegistryEntry(VersionsBody(<<EntryBare, EntryWide>>), RootWithRepo)
        ELSE RegistryEntry(VersionsBody(<<EntryYanked>>), RootWithRepo)]}

InitCrawl ==
    /\ overflow_checks \in BOOLEAN
    /\ registry \in CrawlRegistries
    /\ \E name \in CrateNames, pages \in 0..MaxCrawlPages :
          Called([crates |-> <<name>>, prompt |-> None,
                  docs_max_pages |-> Some(pages), examples_max_files |-> None])
    /\ NoPair
    /\ NoDocument

NextCrawl ==
    \/ Spawn
    \/ \E r \in RegistryVersions : VersionsResponse(1, r)
    \/ \E r \in RegistryRoots : BackfillResponse(1, r)
    \/ \E r \in RegistryRoots : FallbackResponse(1, r)
    \/ \E r \in Bodies(CrawlPages) : DocsPageResponse(1, r)

SpecCrawl == InitCrawl /\ [][NextCrawl]_vars

\* ------------------------------------------------- one crate, end to end

MaxOnePages == 2
MaxOneExamples == 2

\* crate roots naming a repository on another host, and a URL without a repository name
RootElsewhere == RootBody(Some(CrateObject(JStr(<<"2">>), JAbsent, JAbsent,
                                           JStr(StrElsewhereUrl), JAbsent)))
RootOwnerOnly == RootBody(Some(CrateObject(JStr(<<"2">>), JAbsent, JAbsent,
                                           JAbsent, JStr(StrOwnerOnlyUrl))))

\* what crates.io holds for the one crate: a version that names its repository,
\* or one that leaves it to the crate root
OneRegistries ==
    {RegistryEntry(VersionsBody(<<EntryOne>>), RootPlain)}
    \cup {RegistryEntry(VersionsBody(<<EntryBare>>), root) :
            root \in {RootElsewhere, RootOwnerOnly}}

\* an examples listing of branch main with two files, one of them linked twice
TreeOfMain ==
    <<Element("a", <<>>, Some(<<"/", "o">> \o StrBlob \o StrMain \o StrExamplesDir
                                \o <<"a", ".", "r", "s">>)),
      Element("a", <<>>, Some(<<"/", "o">> \o StrBlob \o StrMain \o StrExamplesDir
                                \o <<"b", ".", "r", "s">>)),
      Element("a", <<>>, Some(<<"/", "o">> \o StrBlob \o StrMain \o StrExamplesDir
                                \o <<"a", ".", "r", "s">>))>>

OnePages == {PageRoot}

\* repository pages: with a branch named, without the attribute, with an empty
\* one, with one that is not closed
LandingEmptyAttr == <<"<", "a", " ">> \o StrDefaultBranchAttr \o <<"\"", ">">>
LandingOpenAttr == <<"<", "a", " ">> \o StrDefaultBranchAttr \o <<"d", "e", "v">>
OneLandings == {LandingWithBranch, LandingPlain, LandingEmptyAttr, LandingOpenAttr}

OneTrees == {TreeOfMain}

InitOne ==
    /\ overflow_checks \in BOOLEAN
    /\ \E entry \in OneRegistries : registry = [n \in CrateNames |-> entry]
    /\ \E pages \in 0..MaxOnePages, files \in 0..MaxOneExamples :
          Called([crates |-> <<StrAlpha>>, prompt |-> None,
                  docs_max_pages |-> Some(pages), examples_max_files |-> Some(files)])
    /\ NoPair
    /\ NoDocument

NextOne ==
    \/ Spawn
    \/ \E r \in VersionsAnswers(StrAlpha) : VersionsResponse(1, r)
    \/ \E r \in RootAnswers(StrAlpha) : BackfillResponse(1, r)
    \/ \E r \in RootAnswers(StrAlpha) : FallbackResponse(1, r)
    \/ \E r \in Bodies(OnePages) : DocsPageResponse(1, r)
    \/ \E r \in Bodies(OneLandings) : LandingResponse(1, r)
    \/ \E r \in Bodies({<<>>}) : ProbeResponse(1, r)
    \/ \E r \in Bodies({StrReadme}) : ReadmeResponse(1, r)
    \/ \E r \in Bodies(OneTrees) : TreeResponse(1, r)
    \/ \E r \in Bodies({StrSource}) : RawResponse(1, r)
    \/ Join
    \/ Respond

SpecOne == InitOne /\ [][NextOne]_vars

\* ---------------------------------------------- one crate, run to its end

\* a documentation site without end: the page at a path links to a path one
\* step further, which no page before it named
PageOnward(path) == <<Anchor(path \o <<"n", ".", "h", "t", "m", "l">>)>>

\* the pages the site may answer with to the request of task i
LivePages(i) ==
    IF i \in 1..Len(task) THEN {PageLeaf, PageMixed, PageOnward(task[i].path)} ELSE {}

\* an exchange times out, is answered with an error status, or succeeds
LiveAnswers(pool) == {Failure("timeout"), Failure("status")} \cup {Success(b) : b \in pool}

InitLive ==
    /\ overflow_checks = FALSE
    /\ registry = [n \in CrateNames |-> RegistryEntry(VersionsBody(<<EntryOne>>), RootPlain)]
    /\ \E pages \in 0..MaxOnePages :
          Called([crates |-> <<StrAlpha>>, prompt |-> None,
                  docs_max_pages |-> Some(pages), examples_max_files |-> Some(1)])
    /\ NoPair
    /\ NoDocument

NextLive ==
    \/ Spawn
    \/ \E r \in LiveAnswers({registry[StrAlpha].versions}) : VersionsResponse(1, r)
    \/ \E r \in LiveAnswers({registry[StrAlpha].root}) : BackfillResponse(1, r)
    \/ \E r \in LiveAnswers({registry[StrAlpha].root}) : FallbackResponse(1, r)
    \/ \E r \in LiveAnswers(LivePages(1)) : DocsPageResponse(1, r)
    \/ \E r \in LiveAnswers(BatchLandings) : LandingResponse(1, r)
    \/ \E r \in LiveAnswers({<<>>}) : ProbeResponse(1, r)
    \/ \E r \in LiveAnswers({StrReadme}) : ReadmeResponse(1, r)
    \/ \E r \in LiveAnswers(OneTrees) : TreeResponse(1, r)
    \/ \E r \in LiveAnswers({StrSource}) : RawResponse(1, r)
    \/ Join
    \/ Respond

\* the runtime keeps running the handler: the spawn, each await of a finished
\* task and the final return happen once they can
SpecLive ==
    InitLive /\ [][NextLive]_vars /\ WF_vars(Spawn) /\ WF_vars(Join) /\ WF_vars(Respond)

\* ------------------------------------------ extracting from one document

MaxElements == 3
MaxLines == 3

\* elements whose texts agree after normalization, are noise, or are code
DocElements ==
    {Element("a", <<"a", " ", " ", "b">>, None),
     Element("span", <<" ", "a", "\n", "b", " ">>, None),
     Element("h2", <<"1", "2">>, None),
     Element("a", <<"7", "a">>, None),
     Element("h1", <<"-", "-">>, None),
     Element("a", <<"x">>, None),
     Element("a", <<"é">>, None),
     Element("h3", <<"→">>, None),
     Element("p", <<"a", " ", "b">>, None),
     Element("pre", <<"f", "n", " ", "f", "(", ")">>, None),
     Element("pre", <<"p", "l", "a", "i", "n">>, None),
     Element("code", <<"1", "\n", "u", "s", "e", " ", "x", ";">>, None),
     Element("pre", <<"1", " ", "f", "n", " ", "a">>, None)}

\* lines of a snippet: blank, numbers of 7 and 8 digits, numbered code, code,
\* a numbered line of 5 characters and 8 bytes, a line ending in "\r"
SnippetLines ==
    {<<>>, <<" ">>, <<"1", "2">>, <<"1", "2", "3", "4", "5", "6", "7">>,
     <<"1", "2", "3", "4", "5", "6", "7", "8">>,
     <<"1", " ", "f", "n", " ", "a">>,
     <<"1", "2", " ", "|", " ", "l", "e", "t", " ", "x", ";">>,
     <<"f", "n", " ", "f", "(", ")">>, <<" ", "x">>,
     <<"1", " ", "é", "é", "é">>, <<"x", "\r">>}

InitExtract ==
    /\ overflow_checks = FALSE
    /\ registry = <<>>
    /\ Called([crates |-> <<>>, prompt |-> None, docs_max_pages |-> None,
               examples_max_files |-> None])
    /\ NoPair
    /\ \/ \E html \in SeqsUpTo(DocElements, MaxElements),
             max_items \in {0, 1, MaxElements}, max_blocks \in {0, 1, MaxElements} :
             ex = Extraction("document", html, max_items, max_blocks, <<>>)
       \/ \E lines \in SeqsUpTo(SnippetLines, MaxLines) :
             ex = Extraction("snippet", <<>>, 0, 0, join_str(lines, <<"\n">>))

NextExtract ==
    \/ ExtractDocument
    \/ CleanSnippet

SpecExtract == InitExtract /\ [][NextExtract]_vars

\* ------------------------------------------------- normalizing one href

MaxHrefLen == 4

\* the characters normalize_docs_href looks at, and one it does not
HrefChars == {".", "/", "#", "x"}

\* ex.snip is the href given, ex.cleaned the string returned
InitHref ==
    /\ overflow_checks = FALSE
    /\ registry = <<>>
    /\ Called([crates |-> <<>>, prompt |-> None, docs_max_pages |-> None,
               examples_max_files |-> None])
    /\ NoPair
    /\ \E href \in SeqsUpTo(HrefChars, MaxHrefLen) :
          ex = Extraction("href", <<>>, 0, 0, href)

\* a call of normalize_docs_href, line 318
NormalizeHref ==
    /\ ex.what = "href"
    /\ ~ex.done
    /\ ex' = [ex EXCEPT !.done = TRUE, !.cleaned = Some(normalize_docs_href(ex.snip))]
    /\ UNCHANGED <<overflow_checks, registry, args, mainpc, task, joined, results,
                   warnings, response, finished, va, vb, vgt>>

NextHref == NormalizeHref

SpecHref == InitHref /\ [][NextHref]_vars

\* ================================================================== claims

\* ---- numeric segment sequences, read off the string without i64 arithmetic

\* the part of the trimmed version before the first '-'
MainPart(v) ==
    LET t == trim(v)
        idx == find_char(t, "-")
    IN  IF idx = 0 THEN t ELSE SubSeq(t, 1, idx - 1)

\* the leading run of digits of a segment
RECURSIVE DigitRun(_)
DigitRun(seg) ==
    IF seg # <<>> /\ is_ascii_digit(Head(seg))
    THEN <<Head(seg)>> \o DigitRun(Tail(seg))
    ELSE <<>>

RECURSIVE StripZeros(_)
StripZeros(ds) == IF ds # <<>> /\ Head(ds) = "0" THEN StripZeros(Tail(ds)) ELSE ds

\* the natural number a segment denotes, as its decimal digits without
\* leading zeros (the empty sequence is 0)
SegmentNumber(seg) == StripZeros(DigitRun(seg))

NumericSequence(v) ==
    LET segs == split_char(MainPart(v), ".")
    IN  [k \in 1..Len(segs) |-> SegmentNumber(segs[k])]

\* x > y for natural numbers given by their digits
NumberGreater(x, y) ==
    \/ Len(x) > Len(y)
    \/ /\ Len(x) = Len(y)
       /\ \E k \in 1..Len(x) :
            /\ \A j \in 1..(k - 1) : x[j] = y[j]
            /\ digit_value(x[k]) > digit_value(y[k])

PaddedAt(q, k) == IF k <= Len(q) THEN q[k] ELSE <<>>

\* the zero-padded sequence of a is greater than that of b, most significant first
SequenceGreater(a, b) ==
    LET qa == NumericSequence(a)
        qb == NumericSequence(b)
    IN  \E k \in 1..Max(Len(qa), Len(qb)) :
            /\ \A j \in 1..(k - 1) : PaddedAt(qa, j) = PaddedAt(qb, j)
            /\ NumberGreater(PaddedAt(qa, k), PaddedAt(qb, k))

SequenceEqual(a, b) == ~SequenceGreater(a, b) /\ ~SequenceGreater(b, a)

\* C3 (as claimed): for all pairs of version strings, a ranks above b whenever
\* a's zero-padded numeric segment sequence is the greater one, and b does not
\* rank above a then; stated of every comparison that returns.
C3_NumericRanking ==
    (vgt.done /\ vgt.ab # "panic" /\ SequenceGreater(va, vb))
        => (vgt.ab = "true" /\ vgt.ba = "false")

\* ---- prerelease status

\* a non-empty suffix after the first '-'
HasPrereleaseTag(v) ==
    LET t == trim(v)
        idx == find_char(t, "-")
    IN  idx # 0 /\ idx < Len(t)

\* some dot-segment of the main part does not start with a digit
HasNonNumericSegment(v) ==
    LET segs == split_char(MainPart(v), ".")
    IN  \E k \in 1..Len(segs) : DigitRun(segs[k]) = <<>>

\* the status the comparison uses
CountsAsPrerelease(v) == HasPrereleaseTag(v) \/ HasNonNumericSegment(v)


\* every numeric segment of v is at most i64::MAX = 2^63 - 1, so that
\* `num * 10 + digit` (line 88) does not overflow while v is parsed
SegmentsInRange(v) ==
    \A k \in 1..Len(NumericSequence(v)) :
        ~NumberGreater(NumericSequence(v)[k], I64MaxStr)

\* ---- the registry's version list and root record, as the claims speak of them

\* the body has a version list and an entry of it satisfies `cond`
ListsSome(body, cond(_)) ==
    /\ body[1] = "array"
    /\ \E k \in 1..Len(body[2]) : cond(body[2][k])

\* the versions the list names without marking them yanked
NonYankedListed(body) ==
    IF body[1] # "array" THEN {}
    ELSE {body[2][k].num[2] : k \in {j \in 1..Len(body[2]) :
              body[2][j].num[1] = "str" /\ body[2][j].yanked # "true"}}

\* the list marks version v as yanked
MarkedYanked(body, v) ==
    LET named(e) == e.num = JStr(v) /\ e.yanked = "true" IN ListsSome(body, named)

\* the latest version the root record reports, if it reports one
ReportedLatest(body) ==
    IF ~is_some(body.crate) THEN None
    ELSE LET c == unwrap(body.crate) IN
         IF c.max_version[1] = "str" THEN Some(c.max_version[2])
         ELSE IF c.max_version[1] = "absent" /\ c.newest_version[1] = "str"
         THEN Some(c.newest_version[2])
         ELSE None

\* the fallback request for the root record was sent by task t
FallbackRequested(t) ==
    \E k \in 1..Len(t.log) : t.log[k] = Request("crates_root", <<>>, 2)

\* a ranks strictly above b under the comparison rule
RanksAbove(a, b) ==
    \/ SequenceGreater(a, b)
    \/ SequenceEqual(a, b) /\ ~CountsAsPrerelease(a) /\ CountsAsPrerelease(b)

\* C1 (as claimed): the version a pipeline resolved is never one that the
\* registry's version list marks as yanked, whether it came from the list or
\* from the root record.
C1_NeverYanked ==
    \A i \in 1..Len(task) :
        task[i].resolution.next = "ok"
            => ~MarkedYanked(registry[task[i].name].versions, task[i].resolution.version)

\* C2 (as claimed): whenever the version-list request fails (timeout, transport
\* error, non-success status, unreadable body) or the list has no usable entry,
\* the resolver requests the root record, and resolves to the latest version
\* that record reports; resolution fails only in the fallback, when the root
\* request yields no version.
C2_FallbackOnFailure ==
    [][\A i \in 1..Len(task) :
         /\ \A r \in VersionsAnswers(task[i].name) :
              (VersionsResponse(i, r)
                 /\ (~is_ok(r) \/ NonYankedListed(r.body) = {}))
                => task'[i].pc = "fallback"
         /\ \A r \in RootAnswers(task[i].name) :
              (FallbackResponse(i, r) /\ is_ok(r) /\ is_some(ReportedLatest(r.body)))
                => /\ task'[i].resolution.next = "ok"
                   /\ task'[i].resolution.version = unwrap(ReportedLatest(r.body))
         /\ (task[i].resolution.next # "err" /\ task'[i].resolution.next = "err")
                => /\ task[i].pc = "fallback"
                   /\ \E r \in RootAnswers(task[i].name) :
                        /\ FallbackResponse(i, r)
                        /\ ~(is_ok(r) /\ is_some(ReportedLatest(r.body)))]_vars

\* C5 (as claimed): when the version list has a non-yanked entry and the
\* resolver took its version from the list, the resolved version is one of the
\* non-yanked listed versions and no non-yanked listed version ranks strictly
\* above it, whatever the order of the entries.
C5_MaximumOfListed ==
    \A i \in 1..Len(task) :
        LET t == task[i]
            listed == NonYankedListed(registry[t.name].versions)
        IN  (t.resolution.next = "ok" /\ listed # {} /\ ~FallbackRequested(t))
                => /\ t.resolution.version \in listed
                   /\ \A w \in listed : ~RanksAbove(w, t.resolution.version)

\* ---- the crawl, as the claims speak of it

\* the positions in t's log where the fetch of a path starts (its first candidate)
FetchStarts(t) ==
    {k \in 1..Len(t.log) : t.log[k].kind = "docs_page" /\ t.log[k].n = 1}

\* the paths whose fetch has started, and those whose fetch is over
StartedPaths(t) == {t.log[k].path : k \in FetchStarts(t)}
FetchedPaths(t) ==
    IF t.pc = "docs_page" THEN StartedPaths(t) \ {t.path} ELSE StartedPaths(t)

\* the crawl of t is running / has returned with the task's locals still alive
Crawling(t) == t.pc = "docs_page"
CrawlReturned(t) == t.pc \in {"gh_landing", "gh_probe", "gh_readme", "gh_tree", "gh_raw"}

\* C6: within one crawl no path is passed to the page fetch twice, and while
\* the crawl runs every path whose fetch is over (with a page or with all its
\* candidates failed) is in the visited set and the path being fetched is not.
C6_NoPathFetchedTwice ==
    \A i \in 1..Len(task) :
        LET t == task[i] IN
        /\ \A j, k \in FetchStarts(t) : j # k => t.log[j].path # t.log[k].path
        /\ Crawling(t) => /\ FetchedPaths(t) \subseteq t.visited
                          /\ t.path \notin t.visited

\* C6 witness: the crawl of alpha is fetching m.html after a page that links
\* to it twice was collected and the seed alpha/ failed on all its candidates
C6_Witness ==
    \E i \in 1..Len(task) :
        /\ task[i].pc = "docs_page"
        /\ task[i].path = <<"m", ".", "h", "t", "m", "l">>
        /\ task[i].collected_html = <<PageTwice>>
        /\ task[i].visited = {<<>>, StrAlpha \o <<"/">>}

\* the relevant paths known to the crawl: the two seeds and the links of the
\* collected pages that pass the link heuristic
ReachablePaths(t) ==
    LET els == IF is_some(t.docs_agg_opt) THEN unwrap(t.docs_agg_opt) ELSE <<>>
        linked == {normalize_docs_href(unwrap(els[k].href)) :
                     k \in {j \in 1..Len(els) : els[j].tag = "a" /\ is_some(els[j].href)}}
    IN  {<<>>, t.name \o <<"/">>}
        \cup {p \in linked : p # <<>> /\ link_is_relevant(p, t.name)}

\* C7: with page budget N the pages collected never exceed N; a fetch is in
\* flight only while fewer than N pages are collected, so with N = 0 none is
\* ever issued; and a crawl all of whose fetches succeeded, with more than N
\* relevant paths reachable, returns exactly N pages.
C7_PageBudget ==
    \A i \in 1..Len(task) :
        LET t == task[i]
            N == t.docs_max_pages
        IN  /\ Len(t.collected_html) <= N
            /\ t.pages_count <= N
            /\ Crawling(t) => Len(t.collected_html) < N
            /\ N = 0 => FetchStarts(t) = {}
            /\ (/\ CrawlReturned(t)
                /\ Cardinality(StartedPaths(t)) = t.pages_count
                /\ Cardinality(ReachablePaths(t)) > N)
                   => t.pages_count = N

\* C7 witness: a crawl with budget 2 returned 2 pages, every fetch having
\* succeeded, although a third relevant path was linked
C7_Witness ==
    \E i \in 1..Len(task) :
        /\ CrawlReturned(task[i])
        /\ task[i].docs_max_pages = 2
        /\ task[i].pages_count = 2
        /\ Cardinality(StartedPaths(task[i])) = 2
        /\ Cardinality(ReachablePaths(task[i])) > 2

\* ---- the batch, as the claims speak of it

\* how many elements of sequence s satisfy `cond`
CountOf(s, cond(_)) == Cardinality({k \in 1..Len(s) : cond(s[k])})

\* the caps of the call: the argument, or the default when it is absent
PageCap == IF is_some(args.docs_max_pages) THEN unwrap(args.docs_max_pages) ELSE 200
ExampleCap ==
    IF is_some(args.examples_max_files) THEN unwrap(args.examples_max_files) ELSE 20

\* C8 (as claimed): the batch response has exactly one report per requested
\* name, and every report has a page count of at most max_doc_pages and at
\* most max_example_files example files, whatever the pipelines' outcomes.
C8_OneReportPerName ==
    (mainpc = "returned" /\ args.crates # <<>> /\ response.kind = "success")
        => LET reports == response.payload.results IN
           /\ Len(reports) = Len(args.crates)
           /\ \A n \in CrateNames :
                LET asked(c) == c = n
                    reported(rep) == rep.name = n
                IN  CountOf(reports, reported) = CountOf(args.crates, asked)
           /\ \A k \in 1..Len(reports) :
                /\ reports[k].docs_rs_pages_count <= PageCap
                /\ Len(reports[k].github_examples) <= ExampleCap

\* the reports of the tasks that returned one, in spawn order
RECURSIVE ReturnedReports(_)
ReturnedReports(ts) ==
    IF ts = <<>> THEN <<>>
    ELSE (IF Head(ts).pc = "done" THEN <<unwrap(Head(ts).result)>> ELSE <<>>)
         \o ReturnedReports(Tail(ts))

\* C9: pipelines are isolated.  A step of one task leaves every other task as
\* it was, under every interleaving; a report, once returned, is never changed;
\* the batch response holds the report of every task that returned one,
\* unaltered, whatever became of the others; and once the tasks are spawned
\* the batch never returns an error.
C9_Isolation ==
    /\ [][\A i, j \in 1..Len(task) :
            /\ Len(task') = Len(task)
            /\ (i # j /\ task'[i] # task[i]) => task'[j] = task[j]
            /\ task[i].pc = "done" => task'[i] = task[i]]_vars
    /\ [](mainpc = "returned" /\ task # <<>>
            => /\ response.kind = "success"
               /\ response.payload.results = ReturnedReports(task))

\* C9 witness: a batch of two returned; the first pipeline failed to resolve
\* its version, and the report of the second, whose pipeline resolved, is in
\* the response
C9_Witness ==
    /\ mainpc = "returned"
    /\ Len(task) = 2
    /\ task[1].resolution.next = "err"
    /\ task[2].resolution.next = "ok"
    /\ response.kind = "success"
    /\ Len(response.payload.results) = 2
    /\ response.payload.results[2] = unwrap(task[2].result)
    /\ response.payload.results[2].latest_version # <<>>

\* a report that carries the name and one error string, and nothing else
OnlyNameAndError(rep, name) ==
    /\ rep.name = name
    /\ rep.latest_version = <<>>
    /\ rep.dependency_line = <<>>
    /\ rep.description = None
    /\ rep.repository = None
    /\ rep.crates_io_documentation = None
    /\ rep.docs_rs_root = None
    /\ rep.docs_rs_pages_count = 0
    /\ rep.docs_anchor_items = <<>>
    /\ rep.docs_text_aggregate = None
    /\ rep.docs_code_snippets = <<>>
    /\ rep.github_readme = None
    /\ rep.github_examples = <<>>
    /\ Len(rep.errors) = 1

\* C10: a pipeline whose version resolution failed has returned; it sent
\* requests to the registry only, never one for a documentation page or the
\* repository; and its report carries only the name and one error string.
C10_StopsAtFailedResolution ==
    \A i \in 1..Len(task) :
        task[i].resolution.next = "err"
            => /\ task[i].pc = "done"
               /\ \A k \in 1..Len(task[i].log) :
                    task[i].log[k].kind \in {"crates_versions", "crates_root"}
               /\ OnlyNameAndError(unwrap(task[i].result), task[i].name)
               /\ (mainpc = "returned" /\ response.kind = "success")
                    => \E k \in 1..Len(response.payload.results) :
                         response.payload.results[k] = unwrap(task[i].result)

\* C10 witness: the batch returned with the report of a pipeline whose version
\* resolution failed after the fallback request
C10_Witness ==
    /\ mainpc = "returned"
    /\ response.kind = "success"
    /\ \E i \in 1..Len(task) :
         /\ task[i].resolution.next = "err"
         /\ Len(task[i].log) = 2
         /\ \E k \in 1..Len(response.payload.results) :
              response.payload.results[k] = unwrap(task[i].result)

\* ---- the answer to an empty list

\* C11: a call with an empty crate list starts no task (so sends no request) and,
\* once it has returned, has answered with the guidance payload as a success
\* (kind "help" is CallToolResult::success of the guidance).
C11_EmptyListGuidance ==
    args.crates = <<>> =>
        /\ task = <<>>
        /\ finished = <<>>
        /\ response.kind \in {"none", "help"}
        /\ mainpc = "returned" => response = [kind |-> "help", payload |-> HelpPayload]
        /\ mainpc \in {"called", "returned"}

C11_Witness ==
    /\ args.crates = <<>>
    /\ mainpc = "returned"
    /\ response = [kind |-> "help", payload |-> HelpPayload]
    /\ task = <<>>

\* ---- the order of the reports

\* the reports of the tasks that returned one, in the order the tasks ended
RECURSIVE ReportsAsEnded(_)
ReportsAsEnded(order) ==
    IF order = <<>> THEN <<>>
    ELSE (IF task[Head(order)].pc = "done" THEN <<unwrap(task[Head(order)].result)>>
          ELSE <<>>)
         \o ReportsAsEnded(Tail(order))

\* C12 (as claimed): the reports of the batch response are in the order in which
\* the pipelines completed; a later-listed package whose pipeline finished first
\* has its report first.
C12_CompletionOrder ==
    (mainpc = "returned" /\ response.kind = "success")
        => response.payload.results = ReportsAsEnded(finished)

\* C12 (amended): the reports are collected, and returned, in the order of the
\* package names in the request, whatever the order in which the pipelines
\* completed: at every moment the collected reports are those of the first
\* `joined` names, and the report of an earlier-listed name precedes that of a
\* later-listed one in the response.
C12_RequestOrder ==
    /\ task # <<>> => results = ReturnedReports(SubSeq(task, 1, joined))
    /\ (mainpc = "returned" /\ response.kind = "success")
         => LET reports == response.payload.results IN
            \A k, l \in 1..Len(reports) :
               k < l => \E i, j \in 1..Len(task) :
                          /\ i < j
                          /\ task[i].pc = "done" /\ reports[k] = unwrap(task[i].result)
                          /\ task[j].pc = "done" /\ reports[l] = unwrap(task[j].result)

\* C12 witness: the pipeline of the second name ended before that of the first,
\* and the response has the report of the first name first
C12_Witness ==
    /\ mainpc = "returned"
    /\ response.kind = "success"
    /\ finished = <<2, 1>>
    /\ args.crates[1] # args.crates[2]
    /\ Len(response.payload.results) = 2
    /\ response.payload.results[1].name = args.crates[1]
    /\ response.payload.results[2].name = args.crates[2]

\* ---- the response waits for every task

Ended(t) == t.pc \in {"done", "panicked"}

\* C13: the batch response is built only when every spawned task has ended and
\* has been awaited, and it holds the outcome of each: one report per task that
\* returned and one failure warning per task that did not.
C13_AllJoined ==
    (mainpc = "returned" /\ task # <<>>)
        => /\ \A i \in 1..Len(task) : Ended(task[i])
           /\ joined = Len(task)
           /\ Len(finished) = Len(task)
           /\ response.kind = "success"
           /\ LET returned(t) == t.pc = "done"
                  panicked(t) == t.pc = "panicked"
                  join_failure(w) ==
                      w = Msg("A background task failed while enriching a crate", <<>>)
              IN  /\ Len(response.payload.results) = CountOf(task, returned)
                  /\ CountOf(response.payload.warnings, join_failure)
                        = CountOf(task, panicked)
                  /\ \A i \in 1..Len(task) :
                        returned(task[i])
                          => \E k \in 1..Len(response.payload.results) :
                                response.payload.results[k] = unwrap(task[i].result)

\* C13 witness: a batch of two has returned after both pipelines ended, the
\* second one first, and both reports are in the response
C13_Witness ==
    /\ mainpc = "returned"
    /\ Len(task) = 2
    /\ Len(finished) = 2
    /\ finished[1] = 2
    /\ response.kind = "success"
    /\ Len(response.payload.results) = 2

\* ---- the stages of one pipeline

\* the stage a request belongs to: 1 version resolution, 2 documentation crawl,
\* 3 repository enrichment
StageOf(req) ==
    IF req.kind \in {"crates_versions", "crates_root"} THEN 1
    ELSE IF req.kind = "docs_page" THEN 2
    ELSE 3

\* the resolved URL names an owner and a repository on the recognized host
Recognized(url_opt) ==
    is_some(url_opt) /\ is_some(parse_github_owner_repo(unwrap(url_opt)))

\* C14: in every pipeline the resolver is invoked once, first (one version-list
\* request opens the log and at most one crate-root request follows it); the
\* requests of a later stage never precede those of an earlier one; a
\* documentation or repository request is sent only once the resolver has
\* returned a version; a repository request is sent only once the crawl is over
\* and only if the resolved URL is present and recognized.
C14_StageOrder ==
    \A i \in 1..Len(task) :
        LET t == task[i]
            versions_request(req) == req.kind = "crates_versions"
            root_request(req) == req.kind = "crates_root"
        IN  /\ t.log[1].kind = "crates_versions"
            /\ CountOf(t.log, versions_request) = 1
            /\ CountOf(t.log, root_request) <= 1
            /\ \A j, k \in 1..Len(t.log) :
                  j < k => StageOf(t.log[j]) <= StageOf(t.log[k])
            /\ \A k \in 1..Len(t.log) :
                  /\ StageOf(t.log[k]) >= 2 => t.resolution.next = "ok"
                  /\ StageOf(t.log[k]) = 3
                       => /\ t.pc \notin {"versions", "backfill", "fallback", "docs_page"}
                          /\ Recognized(t.resolution.repository_or_docs)

\* C14 witness: a pipeline that sent requests of all three stages has returned
C14_Witness ==
    /\ task # <<>>
    /\ task[1].pc = "done"
    /\ \A stage \in 1..3 : \E k \in 1..Len(task[1].log) : StageOf(task[1].log[k]) = stage
    /\ \E k \in 1..Len(task[1].log) : task[1].log[k].kind = "gh_raw"

\* ---- a crawl without pages

\* the error string of the documentation stage, line 615
DocsError(name, version) == Msg("Failed to fetch docs.rs pages for {} {}", <<name, version>>)

\* the task sent a request of this kind
Sent(t, kind) == \E k \in 1..Len(t.log) : t.log[k].kind = kind

\* C15: a pipeline whose version resolved and whose crawl fetched no page still
\* returns a full report: it has exactly one error string of the documentation
\* stage, no anchors, no snippets and no aggregated text, the resolved version
\* and its dependency line; and the repository stage was entered when the
\* resolved URL is recognized.
C15_CrawlFailureNonFatal ==
    \A i \in 1..Len(task) :
        LET t == task[i]
            rep == unwrap(t.result)
            docs_error(e) == e = DocsError(t.name, t.resolution.version)
        IN  (t.pc = "done" /\ t.resolution.next = "ok" /\ rep.docs_rs_pages_count = 0)
            => /\ CountOf(rep.errors, docs_error) = 1
               /\ rep.docs_anchor_items = <<>>
               /\ rep.docs_code_snippets = <<>>
               /\ rep.docs_text_aggregate = None
               /\ rep.docs_rs_root = None
               /\ rep.latest_version = t.resolution.version
               /\ rep.latest_version # <<>>
               /\ rep.dependency_line
                    = t.name \o <<" ", "=", " ", "\"">> \o t.resolution.version \o <<"\"">>
               /\ Recognized(t.resolution.repository_or_docs) => Sent(t, "gh_landing")

\* C15 witness: every candidate of both seed paths failed, and the pipeline went
\* on to fetch the README
C15_Witness ==
    /\ task # <<>>
    /\ task[1].pc = "done"
    /\ task[1].resolution.next = "ok"
    /\ Sent(task[1], "docs_page")
    /\ unwrap(task[1].result).docs_rs_pages_count = 0
    /\ Len(unwrap(task[1].result).errors) = 1
    /\ is_some(unwrap(task[1].result).github_readme)

\* ---- the page count of a report

\* the pages a pipeline has fetched so far: the crawl's collection while it
\* runs, the count it left afterwards, the report's count once returned
PagesSoFar(t) ==
    IF t.pc = "docs_page" THEN Len(t.collected_html)
    ELSE IF t.pc = "done" THEN unwrap(t.result).docs_rs_pages_count
    ELSE t.pages_count

\* C16: every report has its documentation root present exactly when its page
\* count is at least 1, and the count is the number of paths whose fetch
\* succeeded: it starts at 0, each successful page fetch adds exactly 1 to it,
\* and no other step changes it, up to and including the return of the report.
C16_PageCount ==
    /\ [](\A i \in 1..Len(task) :
            /\ task[i].pc = "done"
                 => (is_some(unwrap(task[i].result).docs_rs_root)
                       <=> unwrap(task[i].result).docs_rs_pages_count >= 1)
            /\ task[i].pc = "versions" => PagesSoFar(task[i]) = 0)
    /\ [][\A i \in 1..Len(task) :
            LET fetched_one == \E r \in {Success(b) : b \in OnePages} :
                                  DocsPageResponse(i, r)
            IN  PagesSoFar(task'[i])
                  = PagesSoFar(task[i]) + (IF fetched_one THEN 1 ELSE 0)]_vars

\* C16 witness: a report with two pages, from a crawl in which a fetch failed
C16_Witness ==
    /\ task # <<>>
    /\ task[1].pc = "done"
    /\ unwrap(task[1].result).docs_rs_pages_count = 2
    /\ is_some(unwrap(task[1].result).docs_rs_root)
    /\ LET page_request(req) == req.kind = "docs_page"
       IN  CountOf(task[1].log, page_request) >= 4

\* ---- a skipped repository stage

\* C17: a pipeline whose version resolved with a repository-or-docs URL that is
\* absent or not recognized sends no request to the source host; its report
\* has no README and no examples, and its error list holds nothing but the
\* error of a crawl without pages, if that happened; the batch response has no
\* warning beyond that one.
C17_SkipIsSilent ==
    \A i \in 1..Len(task) :
        LET t == task[i]
            rep == unwrap(t.result)
        IN  /\ (t.resolution.next = "ok" /\ ~Recognized(t.resolution.repository_or_docs))
                 => \A k \in 1..Len(t.log) : StageOf(t.log[k]) # 3
            /\ (t.pc = "done" /\ t.resolution.next = "ok"
                    /\ ~Recognized(t.resolution.repository_or_docs))
                 => /\ rep.github_readme = None
                    /\ rep.github_examples = <<>>
                    /\ rep.errors = IF rep.docs_rs_pages_count = 0
                                    THEN <<DocsError(t.name, t.resolution.version)>>
                                    ELSE <<>>
                    /\ (mainpc = "returned" /\ Len(task) = 1)
                         => response.payload.warnings = warnings_of(t.name, rep.errors)

\* C17 witness: the resolved URL is on another host (or names no repository),
\* pages were fetched, and the batch has returned without a warning
C17_Witness ==
    /\ mainpc = "returned"
    /\ Len(task) = 1
    /\ task[1].resolution.next = "ok"
    /\ is_some(task[1].resolution.repository_or_docs)
    /\ ~Recognized(task[1].resolution.repository_or_docs)
    /\ unwrap(task[1].result).docs_rs_pages_count >= 1
    /\ unwrap(task[1].result).repository = task[1].resolution.repository_or_docs
    /\ response.payload.warnings = <<>>

\* the other case of C17: no URL was resolved at all
C17_WitnessAbsent ==
    /\ mainpc = "returned"
    /\ Len(task) = 1
    /\ task[1].resolution.next = "ok"
    /\ task[1].resolution.repository_or_docs = None
    /\ response.payload.warnings = <<>>

\* ---- the warnings of a batch

\* the warning "<package name>: e" of an error string e
WarningFor(name, e) == [fmt |-> "{}: " \o e.fmt, args |-> <<name>> \o e.args]

\* the error lists of the reports, flattened in report order
RECURSIVE Flattened(_)
Flattened(reports) ==
    IF reports = <<>> THEN <<>>
    ELSE [k \in 1..Len(Head(reports).errors) |->
            WarningFor(Head(reports).name, Head(reports).errors[k])]
         \o Flattened(Tail(reports))

\* C18 (as claimed): the warning list of the batch response is exactly the
\* flattening of the error lists of its reports: one warning "<name>: e" per
\* report and error string e, in order, and no other warning.
C18_WarningsFlattenErrors ==
    (mainpc = "returned" /\ response.kind = "success")
        => response.payload.warnings = Flattened(response.payload.results)

\* the flattening holds of every batch in which no task panicked
C18_FlattenedUnlessPanicked ==
    (mainpc = "returned" /\ response.kind = "success"
        /\ \A i \in 1..Len(task) : task[i].pc # "panicked")
        => response.payload.warnings = Flattened(response.payload.results)

\* ---- the example files of a report

ExamplesOf(t) == IF t.pc = "done" THEN unwrap(t.result).github_examples ELSE t.github_examples
ErrorsOf(t) == IF t.pc = "done" THEN unwrap(t.result).errors ELSE t.errors

\* C19 (as claimed): raw content is requested for at most max_example_files
\* paths, the example list (in the report too) never holds more than
\* max_example_files files, and a failed raw fetch adds no error string.
C19_RequestBudget ==
    /\ [](\A i \in 1..Len(task) :
            LET raw_request(req) == req.kind = "gh_raw"
            IN  /\ CountOf(task[i].log, raw_request) <= task[i].examples_max_files
                /\ Len(ExamplesOf(task[i])) <= task[i].examples_max_files)
    /\ [][\A i \in 1..Len(task) :
            (task[i].pc = "gh_raw" /\ task'[i] # task[i])
              => ErrorsOf(task'[i]) = ErrorsOf(task[i])]_vars

\* C19 (amended): the budget counts the files obtained.  The example files of
\* a pipeline never number more than max_example_files, in its report too; a
\* raw file is requested only while fewer than max_example_files files have
\* been fetched successfully; a successful raw fetch adds its file to the
\* list, and a failed one adds neither a file nor an error string and does not
\* count toward the budget (so more than max_example_files paths may be
\* requested).
C19_ExampleBudget ==
    /\ [](\A i \in 1..Len(task) :
            /\ Len(ExamplesOf(task[i])) <= task[i].examples_max_files
            /\ task[i].pc = "gh_raw"
                 => /\ task[i].fetched = Len(task[i].github_examples)
                    /\ task[i].fetched < task[i].examples_max_files)
    /\ [][\A i \in 1..Len(task) :
            (task[i].pc = "gh_raw" /\ task'[i] # task[i])
              => LET fetched_file == \E r \in {Success(StrSource)} : RawResponse(i, r)
                     path == task[i].to_fetch[task[i].idx]
                 IN  /\ ErrorsOf(task'[i]) = ErrorsOf(task[i])
                     /\ ExamplesOf(task'[i])
                           = IF fetched_file
                             THEN Append(task[i].github_examples, <<path, StrSource>>)
                             ELSE task[i].github_examples]_vars

\* C19 witness: with a budget of one file, the first raw fetch failed, a later
\* one succeeded, and the report has one file and no error string
C19_Witness ==
    /\ task # <<>>
    /\ task[1].pc = "done"
    /\ task[1].examples_max_files = 1
    /\ Len(unwrap(task[1].result).github_examples) = 1
    /\ LET raw_request(req) == req.kind = "gh_raw"
       IN  CountOf(task[1].log, raw_request) >= 2
    /\ unwrap(task[1].result).errors = <<>>

\* ---- the candidate URLs of a page fetch

\* the URL a documentation-page request of task t went to
UrlOf(t, req) == docs_candidates(t.name, t.resolution.version, req.path)[req.n]

\* C20 (as claimed): no failed request is repeated.  Of two requests a crawl
\* sent for the same path, the later one is for a later candidate of the
\* ordered list and goes to a URL that was not requested before; and a path
\* gets no more requests than it has candidates.
C20_NoRetry ==
    \A i \in 1..Len(task) :
        LET t == task[i] IN
        \A j, k \in 1..Len(t.log) :
            (j < k /\ t.log[j].kind = "docs_page" /\ t.log[k].kind = "docs_page"
                   /\ t.log[j].path = t.log[k].path)
              => /\ t.log[j].n < t.log[k].n
                 /\ t.log[k].n <= candidate_count(t.log[k].path)
                 /\ UrlOf(t, t.log[j]) # UrlOf(t, t.log[k])

\* each position of the candidate list is requested at most once per path, in
\* list order
C20_EachPositionOnce ==
    \A i \in 1..Len(task) :
        LET t == task[i] IN
        \A j, k \in 1..Len(t.log) :
            (j < k /\ t.log[j].kind = "docs_page" /\ t.log[k].kind = "docs_page"
                   /\ t.log[j].path = t.log[k].path)
              => /\ t.log[j].n < t.log[k].n
                 /\ t.log[k].n <= candidate_count(t.log[k].path)

\* ---- the anchor list of a document

\* the normalized text of element k, and whether the element bears an anchor
AnchorText(html, k) == normalize_anchor_text(trim(html[k].text))
BearsAnchor(html, k) == html[k].tag \in AnchorTags

\* how often a text occurs in a list
Occurrences(list, text) == Cardinality({k \in 1..Len(list) : list[k] = text})

\* the first anchor-bearing element with this normalized text
FirstWith(html, text) ==
    CHOOSE k \in 1..Len(html) :
        /\ BearsAnchor(html, k) /\ AnchorText(html, k) = text
        /\ \A j \in 1..(k - 1) : ~(BearsAnchor(html, j) /\ AnchorText(html, j) = text)

\* C21 (as claimed): a text that two or more anchor-bearing elements share after
\* normalization is in the anchor list exactly once; the list has no duplicate
\* and at most N items.
C21_SharedTextOnce ==
    (ex.what = "document" /\ ex.done)
        => /\ \A j, k \in 1..Len(ex.html) :
                (j < k /\ BearsAnchor(ex.html, j) /\ BearsAnchor(ex.html, k)
                       /\ AnchorText(ex.html, j) = AnchorText(ex.html, k))
                  => Occurrences(ex.anchors, AnchorText(ex.html, j)) = 1
           /\ \A j, k \in 1..Len(ex.anchors) : j # k => ex.anchors[j] # ex.anchors[k]
           /\ Len(ex.anchors) <= ex.max_items

\* the number of bytes of a text in UTF-8
RECURSIVE Utf8Bytes(_)
Utf8Bytes(text) ==
    IF text = <<>> THEN 0
    ELSE (IF Head(text) \in ThreeByteChars THEN 3
          ELSE IF Head(text) \in TwoByteChars THEN 2 ELSE 1) + Utf8Bytes(Tail(text))

\* a text the extraction accepts: two bytes or more, not digits only, and with
\* a letter if it has just two bytes
Accepted(text) ==
    /\ Utf8Bytes(text) >= 2
    /\ \E j \in 1..Len(text) : ~is_ascii_digit(text[j])
    /\ Utf8Bytes(text) = 2 => \E j \in 1..Len(text) : is_alphabetic(text[j])

\* the accepted texts of the anchor-bearing elements before element k
AcceptedBefore(html, k) ==
    {AnchorText(html, j) : j \in {i \in 1..(k - 1) :
                                    BearsAnchor(html, i) /\ Accepted(AnchorText(html, i))}}

\* C21 (amended): the anchor list has no duplicate and at most N items, its items
\* are in the order of their first occurrence in the document, and a text that
\* two or more anchor-bearing elements share is in it at most once: exactly
\* once if the text is accepted (two UTF-8 bytes or more, not digits only,
\* with a letter if just two bytes) and fewer than N distinct accepted
\* texts occur before its first occurrence, and not at all otherwise.
C21_AcceptedTextOnce ==
    (ex.what = "document" /\ ex.done)
        => /\ \A k \in 1..Len(ex.html) :
                BearsAnchor(ex.html, k)
                  => LET text == AnchorText(ex.html, k)
                         first == FirstWith(ex.html, text)
                     IN  Occurrences(ex.anchors, text)
                           = IF Accepted(text)
                                /\ Cardinality(AcceptedBefore(ex.html, first)) < ex.max_items
                             THEN 1 ELSE 0
           /\ \A j \in 1..Len(ex.anchors) :
                \E k \in 1..Len(ex.html) :
                    /\ BearsAnchor(ex.html, k) /\ AnchorText(ex.html, k) = ex.anchors[j]
                    /\ Cardinality(AcceptedBefore(ex.html, FirstWith(ex.html, ex.anchors[j])))
                         = j - 1
           /\ Len(ex.anchors) <= ex.max_items

\* C21 witness: two anchor-bearing elements whose texts differ in whitespace only
\* follow another accepted text, and the shared text is the second item
C21_Witness ==
    /\ ex.what = "document"
    /\ ex.done
    /\ Len(ex.html) = 3
    /\ BearsAnchor(ex.html, 2) /\ BearsAnchor(ex.html, 3)
    /\ ex.html[2].text # ex.html[3].text
    /\ AnchorText(ex.html, 2) = AnchorText(ex.html, 3)
    /\ Len(ex.anchors) = 2
    /\ ex.anchors[2] = AnchorText(ex.html, 2)

\* ---- the code blocks of a document

HasMarker(text, markers) == \E mk \in markers : contains(text, mk)

\* the markers of a function or an import
FnImportMarkers ==
    {<<"f", "n", " ">>, <<"u", "s", "e", " ">>, <<"p", "u", "b", " ", "f", "n">>,
     <<"e", "x", "t", "e", "r", "n", " ", "c", "r", "a", "t", "e">>}

\* element k is a preformatted block, with a marker token
CodeBlock(html, k) == html[k].tag \in CodeTags
MarkedBlock(html, k) == CodeBlock(html, k) /\ HasMarker(html[k].text, CodeMarkers)

\* every snippet is non-empty and is text of a block that has a marker token
C22_UnmarkedExcluded ==
    (ex.what = "document" /\ ex.done)
        => \A j \in 1..Len(ex.blocks) :
              /\ ex.blocks[j] # <<>>
              /\ \E k \in 1..Len(ex.html) :
                    MarkedBlock(ex.html, k) /\ contains(ex.html[k].text, ex.blocks[j])

\* C22 (as claimed): a preformatted block without a marker token is never in the
\* snippet list, and every block with a function or import marker that is among
\* the first M blocks with a marker is in it, with non-empty cleaned content.
C22_MarkedBlocksKept ==
    (ex.what = "document" /\ ex.done)
        => /\ \A j \in 1..Len(ex.blocks) :
                /\ ex.blocks[j] # <<>>
                /\ \E k \in 1..Len(ex.html) :
                      MarkedBlock(ex.html, k) /\ contains(ex.html[k].text, ex.blocks[j])
           /\ \A k \in 1..Len(ex.html) :
                (/\ CodeBlock(ex.html, k)
                 /\ HasMarker(ex.html[k].text, FnImportMarkers)
                 /\ Cardinality({j \in 1..(k - 1) : MarkedBlock(ex.html, j)}) < ex.max_blocks)
                  => \E j \in 1..Len(ex.blocks) :
                        /\ ex.blocks[j] # <<>>
                        /\ contains(ex.html[k].text, ex.blocks[j])

\* ---- reports follow the request

\* the requested names whose task returned a report, from name k on
RECURSIVE NamesReturned(_)
NamesReturned(k) ==
    IF k > Len(args.crates) THEN <<>>
    ELSE (IF task[k].pc = "done" THEN <<args.crates[k]>> ELSE <<>>) \o NamesReturned(k + 1)

\* C23: the names of the reports in the batch response are the requested names,
\* in request order, of the tasks that returned a report, whatever the order in
\* which the tasks ended; and task k is the task of the k-th requested name.
C23_ReportsFollowRequest ==
    /\ task # <<>> => /\ Len(task) = Len(args.crates)
                      /\ \A k \in 1..Len(task) : task[k].name = args.crates[k]
    /\ (mainpc = "returned" /\ response.kind = "success")
         => [k \in 1..Len(response.payload.results) |-> response.payload.results[k].name]
              = NamesReturned(1)

\* C23 witness: of two requested names the second one's pipeline ended first,
\* with a resolved version, while the first one's failed to resolve; the failed
\* report is still the first
C23_Witness ==
    /\ mainpc = "returned"
    /\ response.kind = "success"
    /\ Len(args.crates) = 2
    /\ args.crates[1] # args.crates[2]
    /\ finished = <<2, 1>>
    /\ task[1].resolution.next = "err"
    /\ task[2].resolution.next = "ok"
    /\ response.payload.results[1].name = args.crates[1]
    /\ response.payload.results[1].latest_version = <<>>
    /\ response.payload.results[2].name = args.crates[2]

\* ---- the supplementary crate root request

\* a member of the crate object of a root body, as a string if it is one
RootMember(body, key) ==
    IF is_some(body.crate) /\ unwrap(body.crate)[key][1] = "str"
    THEN Some(unwrap(body.crate)[key][2]) ELSE None

\* C24: when the answer to the supplementary root request arrives, the resolver
\* returns the version selected from the list, whatever the answer; on a failed
\* request the description and URL are those captured from the list; on an
\* answered one a captured value stays, a missing description is that of the
\* root, and a missing URL is the root's repository, or its documentation URL
\* only if the root has no repository either.
C24_BackfillOnlyFills ==
    [][\A i \in 1..Len(task) :
         (task[i].pc = "backfill" /\ task'[i] # task[i])
           => LET before == task[i]
                  after == task'[i].resolution
                  root == registry[before.name].root
                  answered == \E r \in {Success(root)} : BackfillResponse(i, r)
              IN  /\ after.next = "ok"
                  /\ after.version = before.version
                  /\ after.description
                       = IF is_some(before.description) \/ ~answered
                         THEN before.description
                         ELSE RootMember(root, "description")
                  /\ after.repository_or_docs
                       = IF is_some(before.repository_or_docs) \/ ~answered
                         THEN before.repository_or_docs
                         ELSE IF is_some(RootMember(root, "repository"))
                         THEN RootMember(root, "repository")
                         ELSE RootMember(root, "documentation")]_vars

\* C24 witness: the list gave no description and no URL and the root has all
\* three, so the supplementary request failed; the resolver returned the listed
\* version with what the list gave
C24_Witness ==
    /\ task # <<>>
    /\ task[1].resolution.next = "ok"
    /\ Len(task[1].log) >= 2
    /\ task[1].log[2] = Request("crates_root", <<>>, 1)
    /\ task[1].resolution.version = <<"2">>
    /\ task[1].resolution.description = None
    /\ task[1].resolution.repository_or_docs = None
    /\ registry[StrAlpha].root = RootFull

\* the other case of C24: the root answered with values of its own, and those
\* captured from the list were kept
C24_WitnessKept ==
    /\ task # <<>>
    /\ task[1].resolution.next = "ok"
    /\ Len(task[1].log) >= 2
    /\ task[1].log[2] = Request("crates_root", <<>>, 1)
    /\ registry[StrAlpha].root = RootFull
    /\ task[1].resolution.repository_or_docs = Some(StrRepoUrl)
    /\ task[1].resolution.description = Some(StrText)

\* ---- the branch of a repository

\* the last request a task sent
LastRequest(t) == t.log[Len(t.log)]

\* a probe succeeded when it was answered with a success status
ProbeSucceeded(r) == r.kind \in {"ok", "badbody"}

\* C25: the branch is chosen in a fixed order.  A repository page that is
\* fetched and names a non-empty default branch gives the branch, and the README
\* fetch starts; any other answer starts the probe of "main".  A probe that
\* succeeds gives the probed name; a failed probe of "main" is followed by the
\* probe of "master", and a failed probe of "master" gives "main".  Whenever a
\* README, listing or raw-file request is out, a branch has been chosen, and a
\* pipeline that asked for the repository page goes on to the README.
C25_BranchOrder ==
    /\ [](\A i \in 1..Len(task) :
            /\ task[i].pc \in {"gh_readme", "gh_tree", "gh_raw"} => task[i].branch # <<>>
            /\ (task[i].pc = "done" /\ Sent(task[i], "gh_landing"))
                 => Sent(task[i], "gh_readme"))
    /\ [][\A i \in 1..Len(task) :
            /\ \A r \in Bodies(OneLandings) :
                 LandingResponse(i, r)
                   => IF is_ok(r) /\ is_some(branch_in_page(r.body))
                      THEN /\ task'[i].pc = "gh_readme"
                           /\ task'[i].branch = unwrap(branch_in_page(r.body))
                      ELSE /\ task'[i].pc = "gh_probe"
                           /\ LastRequest(task'[i]) = Request("gh_probe", StrMain, 1)
            /\ \A r \in Bodies({<<>>}) :
                 ProbeResponse(i, r)
                   => LET probed == LastRequest(task[i]).path IN
                      IF ProbeSucceeded(r)
                      THEN task'[i].pc = "gh_readme" /\ task'[i].branch = probed
                      ELSE IF probed = StrMain
                      THEN /\ task'[i].pc = "gh_probe"
                           /\ LastRequest(task'[i]) = Request("gh_probe", StrMaster, 2)
                      ELSE task'[i].pc = "gh_readme" /\ task'[i].branch = StrMain]_vars

\* C25 witness: the page named no branch, the probes of "main" and "master"
\* both failed, and the README is requested on "main"
C25_Witness ==
    /\ task # <<>>
    /\ task[1].pc = "gh_readme"
    /\ task[1].branch = StrMain
    /\ \E k \in 1..Len(task[1].log) : task[1].log[k] = Request("gh_probe", StrMaster, 2)
    /\ LastRequest(task[1]) = Request("gh_readme", <<>>, 1)

\* ---- the example paths to fetch

\* the path a link of the listing points at, if the link is to a file under the
\* examples directory of the branch: what follows "/blob/<branch>/"
LinkedExample(el, owner, branch) ==
    LET href == IF is_some(el.href) THEN unwrap(el.href) ELSE <<>>
        at == find_str(href, StrBlob \o branch \o <<"/">>)
    IN  IF el.tag = "a"
           /\ contains(href, <<"/">> \o owner \o StrBlob \o branch \o StrExamplesDir)
        THEN SubSeq(href, at + Len(StrBlob \o branch \o <<"/">>), Len(href))
        ELSE <<>>

\* the linked examples of a listing from element k on, each at its first link
RECURSIVE Discovered(_, _, _, _)
Discovered(body, k, owner, branch) ==
    IF k > Len(body) THEN <<>>
    ELSE LET path == LinkedExample(body[k], owner, branch)
             first == \A j \in 1..(k - 1) : LinkedExample(body[j], owner, branch) # path
         IN  (IF path # <<>> /\ first THEN <<path>> ELSE <<>>)
             \o Discovered(body, k + 1, owner, branch)

\* the error string of a README that could not be fetched, line 628
ReadmeError(t) ==
    Msg("Could not fetch README from GitHub for {}/{} on branch '{}'",
        <<t.owner, t.repo, t.branch>>)

\* C26: the paths to fetch are the common example files exactly when the listing
\* is unavailable or links no example, and otherwise exactly the linked
\* examples, each once, in document order; raw files are requested for these
\* paths in that order.  A README whose two requests failed adds one error
\* string, and the listing is requested whether the README was fetched or not.
C26_ExamplePaths ==
    /\ [](\A i \in 1..Len(task) :
            LET t == task[i] IN
            /\ t.pc = "gh_raw"
                 => \A k \in 1..Len(t.log) :
                       t.log[k].kind = "gh_raw" => t.log[k].path = t.to_fetch[t.log[k].n]
            /\ (t.pc = "done" /\ Sent(t, "gh_readme")) => Sent(t, "gh_tree"))
    /\ [][\A i \in 1..Len(task) :
            /\ \A r \in Bodies(OneTrees) :
                 TreeResponse(i, r)
                   => LET found == IF is_ok(r)
                                   THEN Discovered(r.body, 1, task[i].owner, task[i].branch)
                                   ELSE <<>>
                          expected == IF found = <<>> THEN common_examples ELSE found
                      IN  IF task[i].examples_max_files = 0
                          THEN task'[i].pc = "done"
                          ELSE /\ task'[i].pc = "gh_raw"
                               /\ task'[i].to_fetch = expected
                               /\ LastRequest(task'[i]) = Request("gh_raw", expected[1], 1)
            /\ \A r \in Bodies({StrReadme}) :
                 ReadmeResponse(i, r)
                   => IF is_ok(r)
                      THEN /\ task'[i].pc = "gh_tree"
                           /\ task'[i].errors = task[i].errors
                      ELSE IF LastRequest(task[i]).n = 1
                      THEN /\ task'[i].pc = "gh_readme"
                           /\ task'[i].errors = task[i].errors
                      ELSE /\ task'[i].pc = "gh_tree"
                           /\ task'[i].errors = Append(task[i].errors, ReadmeError(task[i]))]_vars

\* C26 witness: the README could not be fetched, the listing linked one example
\* twice and another once, and the two are being fetched in document order
C26_Witness ==
    /\ task # <<>>
    /\ task[1].pc = "gh_raw"
    /\ Len(task[1].to_fetch) = 2
    /\ task[1].to_fetch[1] # task[1].to_fetch[2]
    /\ LastRequest(task[1]) = Request("gh_raw", task[1].to_fetch[2], 2)
    /\ \E k \in 1..Len(task[1].errors) : task[1].errors[k] = ReadmeError(task[1])

\* the other case of C26: the listing linked no example of the branch, and the
\* common example files are being fetched
C26_WitnessCommon ==
    /\ task # <<>>
    /\ task[1].pc = "gh_raw"
    /\ task[1].to_fetch = common_examples
    /\ task[1].branch # StrMain

\* ---- the order of the crawl

\* the normalized target of element k of a page, empty when it has none
LinkTarget(body, k) ==
    IF body[k].tag = "a" /\ is_some(body[k].href)
    THEN normalize_docs_href(unwrap(body[k].href))
    ELSE <<>>

\* the first element of a page whose target is p
FirstLinkTo(body, p) ==
    CHOOSE k \in 1..Len(body) :
        /\ LinkTarget(body, k) = p
        /\ \A j \in 1..(k - 1) : LinkTarget(body, j) # p

\* the paths whose fetch has started, in the order of the requests
RECURSIVE StartOrder(_, _)
StartOrder(t, k) ==
    IF k > Len(t.log) THEN <<>>
    ELSE IF k \in FetchStarts(t) THEN <<t.log[k].path>> \o StartOrder(t, k + 1)
    ELSE StartOrder(t, k + 1)

\* C27: the crawl is breadth-first in FIFO order.  The first path fetched is
\* the root path "" and the second is "<name>/".  The list of pages grows only
\* at its end, by the page just fetched, and the crawl returns the pages joined
\* in that order.  When the crawl goes on to another path, that path is the
\* oldest pending one; the paths that were pending stay ahead, in their order,
\* of the links of the page just fetched, and those follow in document order.
\* Each link enqueued is the normalized target of an anchor of that page, is
\* not empty and passes the relevance heuristic.
C27_BreadthFirst ==
    /\ [](\A i \in 1..Len(task) :
            LET order == StartOrder(task[i], 1) IN
            /\ Len(order) >= 1 => order[1] = <<>>
            /\ Len(order) >= 2 => order[2] = task[i].name \o <<"/">>)
    /\ [][\A i \in 1..Len(task) :
            (Crawling(task[i]) /\ task'[i] # task[i])
              => LET t == task[i]
                     u == task'[i]
                     n == Len(t.collected_html)
                     grown == Crawling(u) /\ Len(u.collected_html) = n + 1
                     body == IF grown THEN u.collected_html[n + 1] ELSE <<>>
                     pending == <<u.path>> \o u.queue
                     fresh == SubSeq(pending, Len(t.queue) + 1, Len(pending))
                 IN  /\ Crawling(u)
                          => \/ u.collected_html = t.collected_html
                             \/ grown /\ SubSeq(u.collected_html, 1, n) = t.collected_html
                     /\ u.pc = "gh_landing"
                          => \E pages \in {t.collected_html}
                                          \cup {Append(t.collected_html, b) : b \in CrawlPages} :
                                u.docs_agg_opt = IF pages = <<>> THEN None
                                                 ELSE Some(join_pages(pages))
                     /\ (Crawling(u) /\ u.idx = 1)
                          => /\ Len(pending) >= Len(t.queue)
                             /\ SubSeq(pending, 1, Len(t.queue)) = t.queue
                             /\ \A a \in 1..Len(fresh) :
                                  /\ fresh[a] # <<>>
                                  /\ link_is_relevant(fresh[a], t.name)
                                  /\ \E k \in 1..Len(body) : LinkTarget(body, k) = fresh[a]
                             /\ \A a, b \in 1..Len(fresh) :
                                  a < b => FirstLinkTo(body, fresh[a]) < FirstLinkTo(body, fresh[b])]_vars

\* C27 witness: the root page linked to struct.S and m.html, the page of
\* "alpha/" was fetched after it, and struct.S is being fetched ahead of m.html
C27_Witness ==
    /\ task # <<>>
    /\ task[1].pc = "docs_page"
    /\ StartOrder(task[1], 1) = <<<<>>, StrAlpha \o <<"/">>, <<"s", "t", "r", "u", "c", "t", ".", "S">>>>
    /\ task[1].collected_html = <<PageMixed, PageLeaf>>
    /\ task[1].queue = <<<<"m", ".", "h", "t", "m", "l">>>>

\* ---- snippet cleaning

\* a line that is blank, or a short line-number header: digits only, fewer than 8
BlankLine(line) == trim(line) = <<>>
NumberHeader(line) ==
    /\ trim(line) # <<>>
    /\ all_digits(trim(line))
    /\ Len(trim(line)) < 8

\* the lines from the first that is neither blank nor a number header
RECURSIVE FromFirstKept(_)
FromFirstKept(lines) ==
    IF lines = <<>> THEN lines
    ELSE IF BlankLine(Head(lines)) \/ NumberHeader(Head(lines))
    THEN FromFirstKept(Tail(lines))
    ELSE lines

\* C28 (as claimed): cleaning removes only the leading lines that are blank or
\* short pure-numeric headers and keeps every line from the first other line
\* on: the result is those lines joined, trimmed at its two ends, and a
\* leading line holding anything but digits is never dropped.
C28_OnlyNumberHeadersDropped ==
    (ex.what = "snippet" /\ ex.done)
        => LET kept == trim(join_str(FromFirstKept(lines_of(ex.snip)), <<"\n">>))
           IN  ex.cleaned = IF kept = <<>> THEN None ELSE Some(kept)

\* ---- the error of the documentation stage

IsDocsError(e) == e.fmt = "Failed to fetch docs.rs pages for {} {}"
IsDocsWarning(w) == w.fmt = "{}: Failed to fetch docs.rs pages for {} {}"

\* C29 (as claimed): the error string of the documentation stage is on a
\* pipeline's error list only if the pipeline requested a documentation page;
\* a pipeline that requested none has no such error, and the batch response
\* has no warning of that stage for it.
C29_DocsErrorOnlyAfterFetch ==
    \A i \in 1..Len(task) :
        LET t == task[i]
            errors == ErrorsOf(t)
        IN  ~Sent(t, "docs_page")
              => /\ \A k \in 1..Len(errors) : ~IsDocsError(errors[k])
                 /\ (mainpc = "returned" /\ response.kind = "success" /\ Len(task) = 1)
                      => \A k \in 1..Len(response.payload.warnings) :
                            ~IsDocsWarning(response.payload.warnings[k])

\* ---- the pending queue

\* no path occurs twice in the sequence
NoRepeat(q) == \A a, b \in 1..Len(q) : a # b => q[a] # q[b]

\* the queue the pop of line 300 sees after the page body ended the fetch of t.path
QueueAtPop(t, body) ==
    enqueue_links(body, 1, t.queue, t.visited \cup {t.path}, t.name)

\* C30: while a crawl runs, its pending queue holds no path twice and no
\* visited path, and the path being fetched is neither pending nor visited;
\* and whatever page answers the fetch, the queue the loop pops from next
\* holds no path twice and none of the visited paths, the path just fetched
\* included, so the visited check of line 301 never finds a visited path.
C30_QueueDisjointFromVisited ==
    \A i \in 1..Len(task) :
        Crawling(task[i])
          => /\ NoRepeat(task[i].queue)
             /\ \A k \in 1..Len(task[i].queue) : task[i].queue[k] \notin task[i].visited
             /\ ~seq_contains(task[i].queue, task[i].path)
             /\ task[i].path \notin task[i].visited
             /\ \A body \in CrawlPages :
                  LET q == QueueAtPop(task[i], body) IN
                  /\ NoRepeat(q)
                  /\ \A k \in 1..Len(q) : q[k] \notin task[i].visited \cup {task[i].path}

\* C30 witness: the page of "alpha/" linked back to "alpha/" when that path
\* was visited, and the crawl goes on with struct.S while m.html is pending
C30_Witness ==
    /\ task # <<>>
    /\ Crawling(task[1])
    /\ task[1].collected_html = <<PageMixed, PageBack>>
    /\ task[1].visited = {<<>>, StrAlpha \o <<"/">>}
    /\ task[1].path = <<"s", "t", "r", "u", "c", "t", ".", "S">>
    /\ task[1].queue = <<<<"m", ".", "h", "t", "m", "l">>>>

\* ---- termination

\* the positions at which a task awaits the answer to a request
RequestPcs == {"versions", "backfill", "fallback", "docs_page", "gh_landing",
               "gh_probe", "gh_readme", "gh_tree", "gh_raw"}
AwaitingAnswer(i) == i \in 1..Len(task) /\ task[i].pc \in RequestPcs

\* each network call returns or times out: the task is not left for ever at
\* an await of an answer without going on
NetworkReturns ==
    \A i \in 1..1 : []<>(~AwaitingAnswer(i)) \/ []<><<AwaitingAnswer(i)>>_task

\* C31: every crawl ends and the batch response is produced.  Provided each
\* network call returns or times out, whatever the page budget, the pages
\* answered (those of a site that keeps linking to new relevant paths
\* included) and the fetches that fail: a pipeline that is in its crawl
\* eventually leaves it, every pipeline eventually ends, and the handler
\* eventually returns its response.
C31_CrawlTerminates ==
    NetworkReturns
      => /\ \A i \in 1..1 : []<>(~(i \in 1..Len(task) /\ Crawling(task[i])))
         /\ <>(task # <<>> /\ \A i \in 1..Len(task) : task[i].pc \in {"done", "panicked"})
         /\ <>(mainpc = "returned")

\* C31 witness: the response was produced after a crawl with budget 2 on the
\* site without end: the root page and the page it linked to were fetched, the
\* second after two of its candidates failed, "alpha/" failed on all its
\* candidates, and the link of the second page was left unfetched
C31_Witness ==
    /\ mainpc = "returned"
    /\ task # <<>>
    /\ task[1].pc = "done"
    /\ task[1].docs_max_pages = 2
    /\ unwrap(task[1].result).docs_rs_pages_count = 2
    /\ StartOrder(task[1], 1) = <<<<>>, StrAlpha \o <<"/">>, <<"n", ".", "h", "t", "m", "l">>>>
    /\ Request("docs_page", <<"n", ".", "h", "t", "m", "l">>, 3) \in {task[1].log[k] : k \in 1..Len(task[1].log)}

\* ---- the normal form of an href

\* the string normalize_docs_href returned
Normalized == unwrap(ex.cleaned)

\* C32 (as claimed): the normalized href holds no '#', begins with neither
\* '/' nor "./" nor "../", and normalizing it again returns it unchanged.
C32_NormalFormIdempotent ==
    (ex.what = "href" /\ ex.done)
        => /\ find_char(Normalized, "#") = 0
           /\ ~starts_with(Normalized, <<"/">>)
           /\ ~starts_with(Normalized, DotSlash)
           /\ ~starts_with(Normalized, DotDotSlash)
           /\ normalize_docs_href(Normalized) = Normalized

====
